---- MODULE Spec2Model ----
(***************************************************************************)
(* A model of the rivine consensus chain store: processed blocks, the      *)
(* difficulty retarget (targetAdjustmentBase, clampTargetAdjustment,       *)
(* setChildTarget), the fork-choice predicate heavierThan and newChild     *)
(* (modules/consensus/processedblock.go), of the signatures of its         *)
(* transactions (types/signatures.go), of the chain constants and the      *)
(* genesis block (types/constants.go), of the diffs of a block on the      *)
(* unspent outputs and of the backup of the wallet (Wallet.CreateBackup).  *)
(*                                                                         *)
(* Targets are 256-bit unsigned integers in the program; here they are     *)
(* TargetBits wide.  Timestamps are uint64 in the program; here they are   *)
(* TimestampBits wide, with the same wrap-around subtraction and the same  *)
(* reinterpretation as a signed integer.  Rationals (big.Rat) are pairs    *)
(* <<numerator, denominator>> with a positive denominator.                 *)
(***************************************************************************)
EXTENDS Integers, Sequences, FiniteSets, TLC

VARIABLES blockMap, currentPath, feed, call, wallet

vars == <<blockMap, currentPath, feed, call, wallet>>

(***************************************************************************)
(* Bounds of the model.                                                    *)
(***************************************************************************)
\* Width of a Target in bits (256 in the program).
TargetBits == 12
\* Width of a Timestamp in bits (64 in the program).
TimestampBits == 6
\* Number of blocks accepted after the genesis block.
MaxBlocks == 5
\* Block timestamps are drawn from 0..MaxTimestamp.
MaxTimestamp == 3
\* Targets handed to the pure functions: 1..MaxPureTarget and RootDepth \div k.
MaxPureTarget == 5
\* Length of the chain in the specification without forks.
MaxChain == 7
\* Numerators and denominators of the ratios handed to clampTargetAdjustment.
MaxRatio == 6

(***************************************************************************)
(* Chain constants (types/constants.go).                                   *)
(***************************************************************************)
RECURSIVE Pow2(_)
Pow2(n) == IF n = 0 THEN 1 ELSE 2 * Pow2(n - 1)

\* Target{255, 255, ..., 255}: every bit set.
RootDepth == Pow2(TargetBits) - 1
\* The configuration of the chain: a window of 6 blocks, one block a second.
TargetWindow == 6
BlockFrequency == 1
GenesisTimestamp == 1
\* The Values of the block stake outputs of the genesis block.
GenesisBlockStakeAllocation == <<5, 3>>
\* ChainConstants.GenesisBlockStakeCount: the sum of the Values.
RECURSIVE SumValues(_)
SumValues(outputs) ==
    IF outputs = <<>> THEN 0 ELSE Head(outputs) + SumValues(Tail(outputs))
GenesisBlockStakeCount == SumValues(GenesisBlockStakeAllocation)
\* ChainConstants.StartDifficulty: never zero.
StartDifficulty ==
    LET startDifficulty == BlockFrequency * GenesisBlockStakeCount
    IN  IF startDifficulty = 0 THEN 1 ELSE startDifficulty
\* big.NewRat(25, 10) and big.NewRat(10, 25).
MaxAdjustmentUp == <<25, 10>>
MaxAdjustmentDown == <<10, 25>>
\* A threshold of 80 percent.
SurpassThresholdFourFifths == <<80, 100>>
\* big.NewRat(20, 100).
SurpassThreshold == <<20, 100>>
\* types.BlockID{}: the parent of the genesis block.
ZeroID == 0

(***************************************************************************)
(* big.Rat and big.Int arithmetic.                                         *)
(***************************************************************************)
\* big.NewRat(a, b): the sign is carried by the numerator; b = 0 panics.
NewRat(a, b) == IF b < 0 THEN <<0 - a, 0 - b>> ELSE <<a, b>>
RatMul(x, y) == <<x[1] * y[1], x[2] * y[2]>>
RatAdd(x, y) == <<x[1] * y[2] + y[1] * x[2], x[2] * y[2]>>
\* Rat.Inv: 1/x; x = 0 panics.
RatInv(x) == NewRat(x[2], x[1])
\* Rat.Cmp: -1, 0 or +1.
RatCmp(x, y) ==
    LET l == x[1] * y[2]
        r == y[1] * x[2]
    IN  IF l < r THEN -1 ELSE IF l > r THEN 1 ELSE 0
\* Int.Div: Euclidean division, the floor for a positive divisor.
IntDiv(a, b) == a \div b

(***************************************************************************)
(* types.Target.                                                           *)
(***************************************************************************)
\* IntToTarget: an integer that does not fit the width becomes RootDepth; a
\* negative one becomes the zero target (outside a debug build).
IntToTarget(i) == IF i < 0 THEN 0 ELSE IF i > RootDepth THEN RootDepth ELSE i
\* RatToTarget: the conversion to an integer truncates.
RatToTarget(r) == IntToTarget(IntDiv(r[1], r[2]))
\* Target.Rat and Target.Inverse.
TargetRat(x) == <<x, 1>>
TargetInverse(x) == RatInv(TargetRat(x))
\* Target.Cmp compares the integers.
TargetCmp(x, y) == IF x < y THEN -1 ELSE IF x > y THEN 1 ELSE 0
\* Target.AddDifficulties: 1/(1/x + 1/y).
AddDifficulties(x, y) ==
    RatToTarget(RatInv(RatAdd(TargetInverse(x), TargetInverse(y))))
\* Target.MulDifficulty: the target whose difficulty is y times that of x.
MulDifficulty(x, y) == RatToTarget(RatInv(RatMul(y, TargetInverse(x))))
\* NewTarget(StartDifficulty, RootDepth).
RootTarget == IntToTarget(IntDiv(RootDepth, StartDifficulty))

(***************************************************************************)
(* Blocks, block IDs and the encoding of a processed block.                *)
(***************************************************************************)
Timestamps == 0..MaxTimestamp
TimestampModulus == Pow2(TimestampBits)

\* Block.ID(): a hash of the block, injective on the blocks of the model and
\* never the zero ID.
BlockID(b) == b.ParentID * (MaxTimestamp + 1) + b.Timestamp + 1

\* ChainConstants.GenesisBlock.
GenesisBlock == [ParentID |-> ZeroID, Timestamp |-> GenesisTimestamp]
GenesisBlockID == BlockID(GenesisBlock)

\* encoding.Marshal of a processedBlock: its fields in the order of the
\* struct, the block's header (ParentID, Timestamp) first.
Marshal(pb) ==
    <<pb.Block.ParentID, pb.Block.Timestamp, pb.Height, pb.Depth,
      pb.ChildTarget, pb.DiffsGenerated, pb.CoinOutputDiffs,
      pb.BlockStakeOutputDiffs, pb.DelayedCoinOutputDiffs,
      pb.ConsensusChecksum>>
\* encoding.Unmarshal into a processedBlock.
Unmarshal(bytes) ==
    [Block |-> [ParentID |-> bytes[1], Timestamp |-> bytes[2]],
     Height |-> bytes[3], Depth |-> bytes[4], ChildTarget |-> bytes[5],
     DiffsGenerated |-> bytes[6], CoinOutputDiffs |-> bytes[7],
     BlockStakeOutputDiffs |-> bytes[8],
     DelayedCoinOutputDiffs |-> bytes[9], ConsensusChecksum |-> bytes[10]]
\* Block.UnmarshalBlockHeadersParentIDAndTS: only the header is decoded.
UnmarshalBlockHeadersParentIDAndTS(bytes) == <<bytes[1], bytes[2]>>

\* bolt.Bucket.Get and Put on the BlockMap bucket (a function from the IDs
\* stored to the bytes stored under them).
BucketGet(bm, id) == bm[id]
BucketPut(bm, id, bytes) ==
    [k \in DOMAIN bm \cup {id} |-> IF k = id THEN bytes ELSE bm[k]]

(***************************************************************************)
(* processedblock.go                                                       *)
(***************************************************************************)
\* heavierThan with the comparison the wrong way round.
heavierThanInverted(pb, cmp) ==
    LET requirement ==
            AddDifficulties(cmp.Depth,
                            MulDifficulty(cmp.ChildTarget, SurpassThreshold))
    IN  TargetCmp(requirement, pb.Depth) < 0
\* heavierThan with the margin taken from the candidate's ChildTarget.
heavierThanOwnTarget(pb, cmp) ==
    LET requirement ==
            AddDifficulties(cmp.Depth,
                            MulDifficulty(pb.ChildTarget, SurpassThreshold))
    IN  TargetCmp(requirement, pb.Depth) > 0

\* heavierThan without the margin: true of a node that is not lighter.
heavierThanNotLighter(pb, cmp) == TargetCmp(cmp.Depth, pb.Depth) >= 0

heavierThan(pb, cmp) ==
    LET requirement ==
            AddDifficulties(cmp.Depth,
                            MulDifficulty(cmp.ChildTarget, SurpassThreshold))
    IN  TargetCmp(requirement, pb.Depth) > 0

\* childDepth with the two difficulties added as integers.
childDepthIntegerSum(pb) == IntToTarget(pb.Depth + pb.ChildTarget)

childDepth(pb) == AddDifficulties(pb.Depth, pb.ChildTarget)

\* The loop of targetAdjustmentBase going one block beyond the window.
RECURSIVE WindowWalkOneMore(_, _, _, _)
WindowWalkOneMore(bm, windowSize, parent, current) ==
    IF windowSize < TargetWindow + 1 /\ parent # ZeroID
    THEN WindowWalkOneMore(bm, windowSize + 1,
                           UnmarshalBlockHeadersParentIDAndTS(
                               BucketGet(bm, parent))[1],
                           parent)
    ELSE <<windowSize, current>>

\* The loop of targetAdjustmentBase: <<windowSize, current>> when it ends.
RECURSIVE WindowWalk(_, _, _, _)
WindowWalk(bm, windowSize, parent, current) ==
    IF windowSize < TargetWindow /\ parent # ZeroID
    THEN WindowWalk(bm, windowSize + 1,
                    UnmarshalBlockHeadersParentIDAndTS(BucketGet(bm, parent))[1],
                    parent)
    ELSE <<windowSize, current>>

\* uint64 subtraction, and the conversion int64(x) of its result.
SubTimestamp(a, b) == (a - b) % TimestampModulus
\* int64(x) that keeps the unsigned value.
ToSignedKeepsUnsigned(x) == x
ToSigned(x) ==
    IF x >= TimestampModulus \div 2 THEN x - TimestampModulus ELSE x

\* targetAdjustmentBase measuring the time up to the parent's block.
targetAdjustmentBaseFromParent(bm, pb) ==
    LET walk == WindowWalk(bm, 0, pb.Block.ParentID, BlockID(pb.Block))
        windowSize == walk[1]
        timestamp ==
            UnmarshalBlockHeadersParentIDAndTS(BucketGet(bm, walk[2]))[2]
        parentTS ==
            UnmarshalBlockHeadersParentIDAndTS(
                BucketGet(bm, pb.Block.ParentID))[2]
        timePassed == SubTimestamp(parentTS, timestamp)
        expectedTimePassed == BlockFrequency * windowSize
    IN  NewRat(ToSigned(timePassed), ToSigned(expectedTimePassed))

targetAdjustmentBase(bm, pb) ==
    LET walk == WindowWalk(bm, 0, pb.Block.ParentID, BlockID(pb.Block))
        windowSize == walk[1]
        timestamp ==
            UnmarshalBlockHeadersParentIDAndTS(BucketGet(bm, walk[2]))[2]
        timePassed == SubTimestamp(pb.Block.Timestamp, timestamp)
        expectedTimePassed == BlockFrequency * windowSize
    IN  NewRat(ToSigned(timePassed), ToSigned(expectedTimePassed))

\* clampTargetAdjustment with the two bounds exchanged.
clampTargetAdjustmentSwapped(base) ==
    IF RatCmp(base, MaxAdjustmentUp) > 0 THEN MaxAdjustmentDown
    ELSE IF RatCmp(base, MaxAdjustmentDown) < 0 THEN MaxAdjustmentUp
    ELSE base

clampTargetAdjustment(base) ==
    IF RatCmp(base, MaxAdjustmentUp) > 0 THEN MaxAdjustmentUp
    ELSE IF RatCmp(base, MaxAdjustmentDown) < 0 THEN MaxAdjustmentDown
    ELSE base

\* setChildTarget that retargets at every height.
setChildTargetAlways(bm, pb) ==
    LET parent == Unmarshal(BucketGet(bm, pb.Block.ParentID))
        adjustment == clampTargetAdjustment(targetAdjustmentBase(bm, pb))
        adjustedRatTarget == RatMul(TargetRat(parent.ChildTarget), adjustment)
    IN  [pb EXCEPT !.ChildTarget = RatToTarget(adjustedRatTarget)]
\* setChildTarget that never retargets.
setChildTargetNever(bm, pb) ==
    LET parent == Unmarshal(BucketGet(bm, pb.Block.ParentID))
    IN  [pb EXCEPT !.ChildTarget = parent.ChildTarget]

\* setChildTarget: pb with its ChildTarget set.
setChildTarget(bm, pb) ==
    LET parent == Unmarshal(BucketGet(bm, pb.Block.ParentID))
    IN  IF pb.Height % (TargetWindow \div 2) # 0
        THEN [pb EXCEPT !.ChildTarget = parent.ChildTarget]
        ELSE LET adjustment ==
                     clampTargetAdjustment(targetAdjustmentBase(bm, pb))
                 adjustedRatTarget ==
                     RatMul(TargetRat(parent.ChildTarget), adjustment)
             IN  [pb EXCEPT !.ChildTarget = RatToTarget(adjustedRatTarget)]

\* The zero value of a processedBlock around block b.
ZeroProcessedBlock(b) ==
    [Block |-> b, Height |-> 0, Depth |-> 0, ChildTarget |-> 0,
     DiffsGenerated |-> FALSE, CoinOutputDiffs |-> <<>>,
     BlockStakeOutputDiffs |-> <<>>, DelayedCoinOutputDiffs |-> <<>>,
     ConsensusChecksum |-> 0]

\* newChild that gives the child its parent's height.
newChildSameHeight(bm, pb, b) ==
    LET child == [ZeroProcessedBlock(b) EXCEPT
                      !.Height = pb.Height, !.Depth = childDepth(pb)]
        set == setChildTarget(bm, child)
    IN  [child |-> set,
         blockMap |-> BucketPut(bm, BlockID(b), Marshal(set))]

\* newChild storing the child under the ID of its parent.
newChildUnderParentID(bm, pb, b) ==
    LET child == [ZeroProcessedBlock(b) EXCEPT
                      !.Height = pb.Height + 1, !.Depth = childDepth(pb)]
        set == setChildTarget(bm, child)
    IN  [child |-> set,
         blockMap |-> BucketPut(bm, BlockID(pb.Block), Marshal(set))]

\* newChild storing the child before its target is set.
newChildStoredBeforeTarget(bm, pb, b) ==
    LET childID == BlockID(b)
        child == [ZeroProcessedBlock(b) EXCEPT
                      !.Height = pb.Height + 1, !.Depth = childDepth(pb)]
    IN  [child |-> setChildTarget(bm, child),
         blockMap |-> BucketPut(bm, childID, Marshal(child))]

\* newChild: the child node and the bucket with the child stored in it.
newChild(bm, pb, b) ==
    LET childID == BlockID(b)
        child == [ZeroProcessedBlock(b) EXCEPT
                      !.Height = pb.Height + 1, !.Depth = childDepth(pb)]
        set == setChildTarget(bm, child)
    IN  [child |-> set, blockMap |-> BucketPut(bm, childID, Marshal(set))]

(***************************************************************************)
(* The wallet and the goroutines that call CreateBackup (the wallet's      *)
(* persist file).                                                          *)
(***************************************************************************)
\* Number of goroutines that call CreateBackup.
MaxThreads == 2

Threads == 1..MaxThreads
\* The value of the mutex when no goroutine holds it.
NoThread == 0
BackupFilepaths == {"backup1", "backup2"}
ErrStopped == "ErrStopped"
\* The error of a write that fails.
ErrWrite == "ErrWrite"

\* CreateBackup without the wallet mutex.
CreateBackupWithoutMutex == <<"tg.Add", "createBackup", "tg.Done">>

\* The statements of CreateBackup in the order they execute: the deferred
\* calls run when the function returns, the last deferred first.
CreateBackupBody ==
    <<"tg.Add", "mu.Lock", "createBackup", "mu.Unlock", "tg.Done">>

\* The position of a goroutine that is in no call, and of one whose call has
\* returned.
NotCalled == 0
Returned == Len(CreateBackupBody) + 1

\* A wallet after construction: the mutex free, the thread group running and
\* empty, no backup file written, no goroutine in a call.
NewWallet ==
    [mu |-> NoThread,
     tg |-> [stopped |-> FALSE, n |-> 0, closed |-> FALSE],
     files |-> [p \in BackupFilepaths |-> "absent"],
     threads |-> [t \in Threads |->
                     [pc |-> NotCalled, backupFilepath |-> "backup1",
                      err |-> "nil", inside |-> FALSE]]]

(***************************************************************************)
(* The consensus set: the block map, the current path and the change feed. *)
(***************************************************************************)
\* The processed block stored under id.
Node(bm, id) == Unmarshal(BucketGet(bm, id))

\* The node of the genesis block: height 0, depth RootDepth, the root target.
GenesisNode ==
    [ZeroProcessedBlock(GenesisBlock) EXCEPT
         !.Depth = RootDepth, !.ChildTarget = RootTarget,
         !.DiffsGenerated = TRUE]

\* The IDs from the genesis block to id, following the parent IDs.
RECURSIVE PathTo(_, _)
PathTo(bm, id) ==
    IF id = ZeroID THEN <<>>
    ELSE Append(PathTo(bm, Node(bm, id).Block.ParentID), id)

\* The length of the longest common prefix of two paths.
RECURSIVE CommonPrefix(_, _)
CommonPrefix(p, q) ==
    IF p = <<>> \/ q = <<>> \/ Head(p) # Head(q) THEN 0
    ELSE 1 + CommonPrefix(Tail(p), Tail(q))

\* The notification of a reorganization from path old to path new: the
\* blocks reverted, from the old tip down, then the blocks applied, upwards.
ChangeEvents(old, new) ==
    LET k == CommonPrefix(old, new)
        reverted == [i \in 1..(Len(old) - k) |->
                        [kind |-> "revert", id |-> old[Len(old) + 1 - i]]]
        applied == [i \in 1..(Len(new) - k) |->
                        [kind |-> "apply", id |-> new[k + i]]]
    IN  reverted \o applied

CurrentTip == currentPath[Len(currentPath)]

NoCall == [fn |-> "none"]

Init ==
    /\ blockMap = BucketPut(<<>>, GenesisBlockID, Marshal(GenesisNode))
    /\ currentPath = <<GenesisBlockID>>
    /\ feed = <<>>
    /\ wallet = NewWallet
    /\ call = NoCall

\* A block whose parent is known and which is not known itself is linked to
\* its parent by newChild; when the child is heavier than the current tip the
\* consensus set reorganizes to it and notifies the subscribers.
AcceptBlock(b) ==
    /\ b.ParentID \in DOMAIN blockMap
    /\ BlockID(b) \notin DOMAIN blockMap
    /\ LET made == newChild(blockMap, Node(blockMap, b.ParentID), b)
           newPath == PathTo(made.blockMap, BlockID(b))
       IN  /\ blockMap' = made.blockMap
           /\ IF heavierThan(made.child, Node(blockMap, CurrentTip))
              THEN /\ currentPath' = newPath
                   /\ feed' = ChangeEvents(currentPath, newPath)
              ELSE UNCHANGED <<currentPath, feed>>
    /\ UNCHANGED <<call, wallet>>

\* A block on any known parent: forks included.
SubmitBlock(parent, ts) ==
    /\ Cardinality(DOMAIN blockMap) <= MaxBlocks
    /\ AcceptBlock([ParentID |-> parent, Timestamp |-> ts])

Next == \E parent \in DOMAIN blockMap, ts \in Timestamps : SubmitBlock(parent, ts)

Spec == Init /\ [][Next]_vars

\* A block on the current tip: one chain, no forks.
ExtendTip(ts) ==
    /\ Len(currentPath) <= MaxChain
    /\ AcceptBlock([ParentID |-> CurrentTip, Timestamp |-> ts])

NextChain == \E ts \in Timestamps : ExtendTip(ts)

SpecChain == Init /\ [][NextChain]_vars

(***************************************************************************)
(* The pure functions on inputs drawn from bounded sets.                   *)
(***************************************************************************)
PureTargets == (1..MaxPureTarget) \cup {RootDepth \div k : k \in 1..MaxPureTarget}
PureNodes == [Depth : PureTargets, ChildTarget : PureTargets]
Ratios == {NewRat(n, d) : n \in (0 - MaxRatio)..MaxRatio, d \in 1..MaxRatio}

HeavierThanCalls ==
    {[fn |-> "heavierThan", pb |-> a, cmp |-> b, done |-> FALSE, out |-> FALSE] :
         a \in PureNodes, b \in PureNodes}
ClampCalls ==
    {[fn |-> "clampTargetAdjustment", base |-> r, done |-> FALSE, out |-> <<0, 1>>] :
         r \in Ratios}

CompetingTipsCalls ==
    {[fn |-> "competingTips", a |-> a, b |-> b, done |-> FALSE,
      out |-> FALSE, back |-> FALSE] :
         a \in PureNodes, b \in PureNodes}

InitFn ==
    /\ blockMap = BucketPut(<<>>, GenesisBlockID, Marshal(GenesisNode))
    /\ currentPath = <<GenesisBlockID>>
    /\ feed = <<>>
    /\ wallet = NewWallet
    /\ call \in HeavierThanCalls \cup ClampCalls \cup CompetingTipsCalls

CallHeavierThan ==
    /\ call.fn = "heavierThan"
    /\ ~call.done
    /\ call' = [call EXCEPT !.done = TRUE, !.out = heavierThan(call.pb, call.cmp)]
    /\ UNCHANGED <<blockMap, currentPath, feed, wallet>>

CallClampTargetAdjustment ==
    /\ call.fn = "clampTargetAdjustment"
    /\ ~call.done
    /\ call' = [call EXCEPT !.done = TRUE, !.out = clampTargetAdjustment(call.base)]
    /\ UNCHANGED <<blockMap, currentPath, feed, wallet>>

\* Two tips compared each with the other: a.heavierThan(b) and
\* b.heavierThan(a).
CallHeavierThanBothWays ==
    /\ call.fn = "competingTips"
    /\ ~call.done
    /\ call' = [call EXCEPT !.done = TRUE,
                            !.out = heavierThan(call.a, call.b),
                            !.back = heavierThan(call.b, call.a)]
    /\ UNCHANGED <<blockMap, currentPath, feed, wallet>>

NextFn ==
    \/ CallHeavierThan
    \/ CallClampTargetAdjustment
    \/ CallHeavierThanBothWays

SpecFn == InitFn /\ [][NextFn]_vars

(***************************************************************************)
(* Transactions and their signatures (types/signatures.go).                *)
(*                                                                         *)
(* A hash is the data fed to the hasher, a sequence of words: an integer,  *)
(* an output ID or an unlock hash is one word, a slice is its length       *)
(* followed by its elements, a Currency is the length of its big-endian    *)
(* bytes followed by them.  A signature names its signer and the message   *)
(* signed.                                                                 *)
(***************************************************************************)
\* Output IDs the inputs spend are drawn from 1..MaxParentID.
MaxParentID == 2
\* Number of inputs (coin and block-stake together) of a transaction.
MaxInputs == 2
\* Elements handed to sortedUnique are drawn from 0..MaxElem, its lists are
\* at most MaxElems long and max is drawn from 0..MaxElem + 1.
MaxElem == 3
MaxElems == 3

SignatureEntropy == "entropy"
SignatureEd25519 == "ed25519"
\* A specifier no version of the program recognizes.
SignatureUnrecognized == "unknown"
Specifiers == {SignatureEntropy, SignatureEd25519, SignatureUnrecognized}

Nil == "nil"
ErrEntropyKey == "ErrEntropyKey"
ErrPrematureSignature == "ErrPrematureSignature"
ErrDoubleSpend == "ErrDoubleSpend"
ErrInvalidSignature == "ErrInvalidSignature"

SiaPublicKey(algorithm, key) == [Algorithm |-> algorithm, Key |-> key]

\* crypto.SignHash and crypto.VerifyHash: a signature verifies under the key
\* of its signer, for the hash it was made for.
SignHash(hash, secretKey) == [Signer |-> secretKey, Message |-> hash]
VerifyHash(hash, pk, sig) == sig.Signer = pk.Key /\ sig.Message = hash

\* The unlock hash of an input's unlocker: the hash of its condition (the
\* public key, the lock and the wrapped condition), not of its signature.
SpecifierCode(algorithm) ==
    CASE algorithm = SignatureEntropy -> 1
      [] algorithm = SignatureEd25519 -> 2
      [] OTHER -> 3
RECURSIVE UnlockHash(_)
UnlockHash(u) ==
    IF u.Type = "TimeLock"
    THEN 16 * (u.LockHeight + 1) + UnlockHash(u.Condition)
    ELSE 4 * SpecifierCode(u.PublicKey.Algorithm) + u.PublicKey.Key

\* encoding.Encoder on the values InputSigHash feeds to the hasher.
RECURSIVE Concat(_)
Concat(seqs) == IF seqs = <<>> THEN <<>> ELSE Head(seqs) \o Concat(Tail(seqs))
EncodeUint64(n) == <<n>>
EncodeCurrency(c) == IF c = 0 THEN <<0>> ELSE <<1, c>>
EncodeOutput(o) == EncodeCurrency(o.Value) \o <<o.UnlockHash>>
EncodeOutputs(outputs) ==
    <<Len(outputs)>> \o Concat([i \in 1..Len(outputs) |-> EncodeOutput(outputs[i])])
EncodeCurrencies(cs) ==
    <<Len(cs)>> \o Concat([i \in 1..Len(cs) |-> EncodeCurrency(cs[i])])
EncodeBytes(bytes) == <<Len(bytes)>> \o bytes
EncodeInput(in) == <<in.ParentID, UnlockHash(in.Unlocker)>>

\* The signer of the signature an unlocker carries.
RECURSIVE SignerOf(_)
SignerOf(u) ==
    IF u.Type = "TimeLock" THEN SignerOf(u.Condition) ELSE u.Signature.Signer

\* InputSigHash with the signatures of the inputs fed to the hasher too.
InputSigHashWithSignatures(t, inputIndex) ==
    EncodeUint64(inputIndex)
        \o Concat([i \in 1..Len(t.CoinInputs) |->
                      EncodeInput(t.CoinInputs[i])
                          \o <<SignerOf(t.CoinInputs[i].Unlocker)>>])
        \o EncodeOutputs(t.CoinOutputs)
        \o Concat([i \in 1..Len(t.BlockStakeInputs) |->
                      EncodeInput(t.BlockStakeInputs[i])
                          \o <<SignerOf(t.BlockStakeInputs[i].Unlocker)>>])
        \o EncodeOutputs(t.BlockStakeOutputs)
        \o EncodeCurrencies(t.MinerFees)
        \o EncodeBytes(t.ArbitraryData)

InputSigHash(t, inputIndex) ==
    EncodeUint64(inputIndex)
        \o Concat([i \in 1..Len(t.CoinInputs) |-> EncodeInput(t.CoinInputs[i])])
        \o EncodeOutputs(t.CoinOutputs)
        \o Concat([i \in 1..Len(t.BlockStakeInputs) |->
                      EncodeInput(t.BlockStakeInputs[i])])
        \o EncodeOutputs(t.BlockStakeOutputs)
        \o EncodeCurrencies(t.MinerFees)
        \o EncodeBytes(t.ArbitraryData)

\* sortedUnique without the comparison of the largest element with max.
sortedUniqueNoMax(elems, max) ==
    \A i \in 2..Len(elems) : elems[i] > elems[i - 1]

\* uint64(max) of an int.
Uint64(n) == n % TimestampModulus

RECURSIVE sortedUniqueLoop(_, _, _)
sortedUniqueLoop(elems, i, biggest) ==
    IF i > Len(elems) THEN [sorted |-> TRUE, biggest |-> biggest]
    ELSE IF elems[i] <= biggest THEN [sorted |-> FALSE, biggest |-> biggest]
    ELSE sortedUniqueLoop(elems, i + 1, elems[i])

sortedUnique(elems, max) ==
    IF Len(elems) = 0 THEN TRUE
    ELSE LET walk == sortedUniqueLoop(elems, 2, elems[1])
         IN  IF ~walk.sorted THEN FALSE
             ELSE IF walk.biggest >= Uint64(max) THEN FALSE
             ELSE TRUE

\* The height of the chain as an unlock condition sees it: Unlock is handed
\* the input's index and the transaction, no height.
ObservedHeight == call.observed

\* Unlocker.Unlock of the input at inputIndex of transaction t.
RECURSIVE Unlock(_, _, _)
Unlock(u, inputIndex, t) ==
    IF u.Type = "TimeLock"
    THEN IF ObservedHeight < u.LockHeight THEN ErrPrematureSignature
         ELSE Unlock(u.Condition, inputIndex, t)
    ELSE CASE u.PublicKey.Algorithm = SignatureEntropy -> ErrEntropyKey
           [] u.PublicKey.Algorithm = SignatureEd25519 ->
                  IF VerifyHash(InputSigHash(t, inputIndex), u.PublicKey,
                                u.Signature)
                  THEN Nil ELSE ErrInvalidSignature
           [] OTHER -> Nil

\* The loop of validSignatures handing Unlock the position of the input
\* among all the inputs of the transaction, the block-stake inputs counted
\* on from the coin inputs.
RECURSIVE validSignaturesLoopRunningIndex(_, _, _, _, _, _)
validSignaturesLoopRunningIndex(t, kind, inputs, index, spent, unlocked) ==
    IF index > Len(inputs) THEN [err |-> Nil, unlocked |-> unlocked]
    ELSE IF inputs[index].ParentID \in spent
    THEN [err |-> ErrDoubleSpend, unlocked |-> unlocked]
    ELSE LET err == Unlock(inputs[index].Unlocker, Len(unlocked), t)
             invoked == Append(unlocked, <<kind, Len(unlocked)>>)
         IN  IF err # Nil THEN [err |-> err, unlocked |-> invoked]
             ELSE validSignaturesLoopRunningIndex(
                      t, kind, inputs, index + 1,
                      spent \cup {inputs[index].ParentID}, invoked)

\* One loop of validSignatures, from the input at position index (from 1) of
\* inputs on: spent is the double-spend set, unlocked the inputs Unlock has
\* been invoked for so far.
RECURSIVE validSignaturesLoop(_, _, _, _, _, _)
validSignaturesLoop(t, kind, inputs, index, spent, unlocked) ==
    IF index > Len(inputs) THEN [err |-> Nil, unlocked |-> unlocked]
    ELSE IF inputs[index].ParentID \in spent
    THEN [err |-> ErrDoubleSpend, unlocked |-> unlocked]
    ELSE LET err == Unlock(inputs[index].Unlocker, index - 1, t)
             invoked == Append(unlocked, <<kind, index - 1>>)
         IN  IF err # Nil THEN [err |-> err, unlocked |-> invoked]
             ELSE validSignaturesLoop(t, kind, inputs, index + 1,
                                      spent \cup {inputs[index].ParentID},
                                      invoked)

\* validSignatures with one double-spend set for both kinds of input.
validSignaturesSharedSet(t, currentHeight) ==
    LET coins == validSignaturesLoop(t, "coin", t.CoinInputs, 1, {}, <<>>)
    IN  IF coins.err # Nil THEN coins
        ELSE validSignaturesLoop(t, "blockstake", t.BlockStakeInputs, 1,
                                 {t.CoinInputs[i].ParentID :
                                      i \in 1..Len(t.CoinInputs)},
                                 coins.unlocked)
\* validSignatures unlocking an input before looking for its double spend.
validSignaturesUnlockFirst(t, currentHeight) ==
    LET all == [i \in 1..(Len(t.CoinInputs) + Len(t.BlockStakeInputs)) |->
                   IF i <= Len(t.CoinInputs)
                   THEN <<"coin", i - 1, t.CoinInputs[i]>>
                   ELSE <<"blockstake", i - Len(t.CoinInputs) - 1,
                          t.BlockStakeInputs[i - Len(t.CoinInputs)]>>]
        errAt(i) ==
            LET e == Unlock(all[i][3].Unlocker, all[i][2], t)
            IN  IF e # Nil THEN e
                ELSE IF \E j \in 1..(i - 1) :
                            /\ all[j][1] = all[i][1]
                            /\ all[j][3].ParentID = all[i][3].ParentID
                     THEN ErrDoubleSpend ELSE Nil
        failing == {i \in DOMAIN all : errAt(i) # Nil}
        first == IF failing = {} THEN Len(all)
                 ELSE CHOOSE i \in failing : \A j \in failing : i <= j
    IN  [err |-> IF failing = {} THEN Nil ELSE errAt(first),
         unlocked |-> [i \in 1..first |-> <<all[i][1], all[i][2]>>]]
\* validSignatures going on to the block-stake inputs after a coin input
\* failed.
validSignaturesLastError(t, currentHeight) ==
    LET coins == validSignaturesLoop(t, "coin", t.CoinInputs, 1, {}, <<>>)
        stakes == validSignaturesLoop(t, "blockstake", t.BlockStakeInputs, 1,
                                      {}, coins.unlocked)
    IN  IF stakes.err # Nil THEN stakes
        ELSE [err |-> coins.err, unlocked |-> stakes.unlocked]
\* validSignatures without the calls of Unlock.
validSignaturesNoUnlock(t, currentHeight) ==
    IF \E i, j \in DOMAIN t.CoinInputs :
           i # j /\ t.CoinInputs[i].ParentID = t.CoinInputs[j].ParentID
    THEN [err |-> ErrDoubleSpend, unlocked |-> <<>>]
    ELSE IF \E i, j \in DOMAIN t.BlockStakeInputs :
           /\ i # j
           /\ t.BlockStakeInputs[i].ParentID = t.BlockStakeInputs[j].ParentID
    THEN [err |-> ErrDoubleSpend, unlocked |-> <<>>]
    ELSE [err |-> Nil, unlocked |-> <<>>]

\* validSignatures: the error returned and, in order, the inputs Unlock was
\* invoked for.
validSignatures(t, currentHeight) ==
    LET coins == validSignaturesLoop(t, "coin", t.CoinInputs, 1, {}, <<>>)
    IN  IF coins.err # Nil THEN coins
        ELSE validSignaturesLoop(t, "blockstake", t.BlockStakeInputs, 1, {},
                                 coins.unlocked)

(***************************************************************************)
(* The functions of package types on inputs drawn from bounded sets.       *)
(***************************************************************************)
SeqsUpTo(S, n) == UNION {[1..k -> S] : k \in 0..n}

\* What an input's unlocker is made of: the algorithm of its public key
\* (key 1), who signed ("owner": key 1, "other": key 2, "nobody": bytes that
\* are no signature) and the height of its time lock (-1: no time lock).
UnlockerPlans ==
    {[Algorithm |-> SignatureEd25519, Signed |-> "owner", Lock |-> -1],
     [Algorithm |-> SignatureEd25519, Signed |-> "other", Lock |-> -1],
     [Algorithm |-> SignatureEntropy, Signed |-> "owner", Lock |-> -1],
     [Algorithm |-> SignatureUnrecognized, Signed |-> "nobody", Lock |-> -1],
     [Algorithm |-> SignatureUnrecognized, Signed |-> "other", Lock |-> -1],
     [Algorithm |-> SignatureEd25519, Signed |-> "owner", Lock |-> 100]}
Heights == {99, 100}

MakeUnlocker(plan, hash) ==
    LET condition ==
            [Type |-> "SingleSignature",
             PublicKey |-> SiaPublicKey(plan.Algorithm, 1),
             Signature |-> CASE plan.Signed = "owner" -> SignHash(hash, 1)
                             [] plan.Signed = "other" -> SignHash(hash, 2)
                             [] OTHER -> SignHash(<<>>, 0)]
    IN  IF plan.Lock < 0 THEN condition
        ELSE [Type |-> "TimeLock", LockHeight |-> plan.Lock,
              Condition |-> condition]

\* The transaction of a plan, every input signed over its InputSigHash.
MakeInputs(plans, hashes) ==
    [i \in 1..Len(plans) |->
        [ParentID |-> plans[i].ParentID,
         Unlocker |-> MakeUnlocker(plans[i].Plan, hashes[i])]]
MakeTransaction(p) ==
    LET unsigned ==
            [p EXCEPT
                !.CoinInputs =
                    MakeInputs(@, [i \in 1..Len(@) |-> <<>>]),
                !.BlockStakeInputs =
                    MakeInputs(@, [i \in 1..Len(@) |-> <<>>])]
    IN  [p EXCEPT
            !.CoinInputs =
                MakeInputs(@, [i \in 1..Len(@) |-> InputSigHash(unsigned, i - 1)]),
            !.BlockStakeInputs =
                MakeInputs(@, [i \in 1..Len(@) |-> InputSigHash(unsigned, i - 1)])]

InputPlans == [ParentID : 1..MaxParentID, Plan : UnlockerPlans]
SomeOutput == [Value |-> 1, UnlockHash |-> 9]
\* Plans of transactions that differ in each field InputSigHash covers, and
\* the fields in which two plans differ.
HashInputs ==
    {<<>>} \cup {<<[ParentID |-> p, Plan |-> plan]>> :
                    p \in 1..MaxParentID,
                    plan \in {q \in UnlockerPlans :
                                 q.Algorithm = SignatureEd25519 /\ q.Lock < 0}}
HashPlans ==
    [CoinInputs : HashInputs, CoinOutputs : {<<>>, <<SomeOutput>>},
     BlockStakeInputs : {x \in HashInputs : \A i \in DOMAIN x : x[i].ParentID = 1},
     BlockStakeOutputs : {<<>>, <<SomeOutput>>}, MinerFees : {<<>>, <<1>>},
     ArbitraryData : {<<>>, <<7>>}]
Differing(p, q) == {f \in DOMAIN p : p[f] # q[f]}

\* The time lock of an unlocker reads the height it observes; without a
\* time lock nothing reads a height.
HasTimeLock(inputs) == \E i \in DOMAIN inputs : inputs[i].Plan.Lock >= 0
InputLists(maxInputs) ==
    UNION {[1..n -> InputPlans] \X SeqsUpTo(InputPlans, maxInputs - n) :
               n \in 0..maxInputs}
ValidSignaturesCalls(lists) ==
    {[fn |-> "validSignatures",
      t |-> MakeTransaction([CoinInputs |-> x[1][1],
                             CoinOutputs |-> <<SomeOutput>>,
                             BlockStakeInputs |-> x[1][2],
                             BlockStakeOutputs |-> <<>>,
                             MinerFees |-> <<1>>, ArbitraryData |-> <<>>]),
      currentHeight |-> x[2], observed |-> x[3], done |-> FALSE,
      out |-> [err |-> Nil, unlocked |-> <<>>]] :
         x \in {y \in lists \X Heights \X Heights :
                    HasTimeLock(y[1][1] \o y[1][2]) \/ y[2] = y[3]}}
SortedUniqueCalls ==
    {[fn |-> "sortedUnique", elems |-> e, max |-> m, done |-> FALSE, out |-> FALSE] :
         e \in SeqsUpTo(0..MaxElem, MaxElems), m \in 0..(MaxElem + 1)}
InputSigHashCalls(plans) ==
    {[fn |-> "InputSigHash", t |-> MakeTransaction(x[1]),
      u |-> MakeTransaction(x[2]), inputIndex |-> x[3], inputIndexU |-> x[4],
      done |-> FALSE, out |-> <<>>, outU |-> <<>>] :
         x \in {y \in plans \X plans \X (0..1) \X (0..1) :
                    Cardinality(Differing(y[1], y[2])) <= 1}}

\* ChainConstants.GenesisBlock with the coin outputs and the block stake
\* outputs of the genesis transaction taken from each other's field.
GenesisBlockSwapped(c) ==
    [ParentID |-> ZeroID,
     Timestamp |-> c.GenesisTimestamp,
     Transactions |->
         <<[CoinInputs |-> <<>>, CoinOutputs |-> c.GenesisBlockStakeAllocation,
            BlockStakeInputs |-> <<>>,
            BlockStakeOutputs |-> c.GenesisCoinDistribution,
            MinerFees |-> <<>>, ArbitraryData |-> <<>>]>>]

\* ChainConstants.GenesisBlock of the chain constants c: every field the
\* composite literal does not name has its zero value.
GenesisBlockOf(c) ==
    [ParentID |-> ZeroID,
     Timestamp |-> c.GenesisTimestamp,
     Transactions |->
         <<[CoinInputs |-> <<>>, CoinOutputs |-> c.GenesisCoinDistribution,
            BlockStakeInputs |-> <<>>,
            BlockStakeOutputs |-> c.GenesisBlockStakeAllocation,
            MinerFees |-> <<>>, ArbitraryData |-> <<>>]>>]

\* Block.ID() of a block with its transactions: the hash of its encoding,
\* here the encoding itself.
RECURSIVE EncodeTransactions(_)
EncodeTransactions(ts) ==
    IF ts = <<>> THEN <<>>
    ELSE EncodeOutputs(Head(ts).CoinOutputs)
             \o EncodeOutputs(Head(ts).BlockStakeOutputs)
             \o EncodeTransactions(Tail(ts))
HashBlock(b) ==
    <<b.ParentID, b.Timestamp, Len(b.Transactions)>>
        \o EncodeTransactions(b.Transactions)
\* ChainConstants.GenesisBlockID.
GenesisBlockIDOf(c) == HashBlock(GenesisBlockOf(c))

\* Timestamp(1231006505): the timestamp of the bitcoin genesis block, in
\* seconds.  The genesis timestamps handed to Validate are in seconds too.
BitcoinGenesisTimestamp == 1231006505
ErrInvalidGenesisCoinDistribution == "Invalid genesis coin distribution"
ErrInvalidGenesisBlockStakeAllocation == "Invalid genesis blockstake allocation"
ErrInvalidGenesisTimestamp == "Invalid genesis timestamp"

\* Validate looking at the genesis timestamp before the allocations.
ValidateTimestampFirst(c) ==
    [err |-> IF c.GenesisTimestamp < BitcoinGenesisTimestamp
             THEN ErrInvalidGenesisTimestamp
             ELSE IF Len(c.GenesisCoinDistribution) = 0
             THEN ErrInvalidGenesisCoinDistribution
             ELSE IF Len(c.GenesisBlockStakeAllocation) = 0
             THEN ErrInvalidGenesisBlockStakeAllocation
             ELSE Nil,
     c |-> c]

\* ChainConstants.Validate: the error returned and the constants after the
\* call.
Validate(c) ==
    [err |-> IF Len(c.GenesisCoinDistribution) = 0
             THEN ErrInvalidGenesisCoinDistribution
             ELSE IF Len(c.GenesisBlockStakeAllocation) = 0
             THEN ErrInvalidGenesisBlockStakeAllocation
             ELSE IF c.GenesisTimestamp < BitcoinGenesisTimestamp
             THEN ErrInvalidGenesisTimestamp
             ELSE Nil,
     c |-> c]

\* ChainConstants.GenesisBlockStakeCount of the chain constants c.
GenesisBlockStakeCountOf(c) ==
    SumValues([i \in DOMAIN c.GenesisBlockStakeAllocation |->
                  c.GenesisBlockStakeAllocation[i].Value])
\* int64(c.BlockFrequency) of a BlockHeight, an unsigned integer of the
\* width of a Timestamp.
Int64(n) == ToSigned(n % TimestampModulus)
\* NewDifficulty(b): the Difficulty b; of a negative b either the zero
\* Difficulty or b itself (onNegative).
NewDifficulty(b, onNegative) ==
    IF b < 0 /\ onNegative = "zero" THEN 0 ELSE b
\* ChainConstants.StartDifficulty of the chain constants c.
StartDifficultyOf(c, onNegative) ==
    LET startDifficulty ==
            NewDifficulty(Int64(c.BlockFrequency) * GenesisBlockStakeCountOf(c),
                          onNegative)
    IN  IF startDifficulty = 0 THEN 1 ELSE startDifficulty
\* ChainConstants.RootTarget of the chain constants c: NewTarget divides the
\* root depth by the difficulty.
RootTargetOf(c, onNegative) ==
    IntToTarget(IntDiv(RootDepth, StartDifficultyOf(c, onNegative)))

\* The constants of the three build profiles.  Amounts of coins are in units
\* of OneCoin, an unlock hash is a small number, the zero hash 0.
DevConstants ==
    [BlockSizeLimit |-> 2000000, RootDepth |-> RootDepth,
     BlockCreatorFee |-> 10, MinimumTransactionFee |-> 1,
     BlockFrequency |-> 12, MaturityDelay |-> 10,
     MedianTimestampWindow |-> 11, TargetWindow |-> 20,
     MaxAdjustmentUp |-> NewRat(120, 100),
     MaxAdjustmentDown |-> NewRat(100, 120),
     FutureThreshold |-> 2 * 60, ExtremeFutureThreshold |-> 4 * 60,
     StakeModifierDelay |-> 2000, BlockStakeAging |-> Pow2(10),
     GenesisTimestamp |-> 1424139000,
     GenesisBlockStakeAllocation |-> <<[Value |-> 1000000, UnlockHash |-> 1]>>,
     GenesisCoinDistribution |-> <<[Value |-> 1000, UnlockHash |-> 1]>>]
TestingConstants(now) ==
    [BlockSizeLimit |-> 2000000, RootDepth |-> RootDepth,
     BlockCreatorFee |-> 100, MinimumTransactionFee |-> 1,
     BlockFrequency |-> 1, MaturityDelay |-> 3,
     MedianTimestampWindow |-> 11,
     GenesisTimestamp |-> now - 1000000,
     TargetWindow |-> 200,
     MaxAdjustmentUp |-> NewRat(10001, 10000),
     MaxAdjustmentDown |-> NewRat(9999, 10000),
     FutureThreshold |-> 3, ExtremeFutureThreshold |-> 6,
     StakeModifierDelay |-> 20, BlockStakeAging |-> Pow2(10),
     GenesisBlockStakeAllocation |->
         <<[Value |-> 2000, UnlockHash |-> 2],
           [Value |-> 7000, UnlockHash |-> 3],
           [Value |-> 1000, UnlockHash |-> 0]>>,
     GenesisCoinDistribution |-> <<[Value |-> 1000, UnlockHash |-> 2]>>]
StandardConstants ==
    [BlockSizeLimit |-> 2000000, RootDepth |-> RootDepth,
     BlockCreatorFee |-> 10, MinimumTransactionFee |-> 1,
     BlockFrequency |-> 600, MaturityDelay |-> 144,
     MedianTimestampWindow |-> 11, TargetWindow |-> 1000,
     MaxAdjustmentUp |-> NewRat(25, 10),
     MaxAdjustmentDown |-> NewRat(10, 25),
     FutureThreshold |-> 3 * 60 * 60, ExtremeFutureThreshold |-> 5 * 60 * 60,
     StakeModifierDelay |-> 2000, BlockStakeAging |-> Pow2(17),
     GenesisTimestamp |-> 1496322000,
     GenesisBlockStakeAllocation |-> <<[Value |-> 1000000, UnlockHash |-> 4]>>,
     GenesisCoinDistribution |->
         <<[Value |-> 100 * 1000 * 1000, UnlockHash |-> 4]>>]

\* DefaultChainConstants that leaves the coin distribution of the standard
\* net unset.
DefaultChainConstantsNoCoins(release, now) ==
    IF release = "dev" THEN DevConstants
    ELSE IF release = "testing" THEN TestingConstants(now)
    ELSE [StandardConstants EXCEPT !.GenesisCoinDistribution = <<>>]

\* DefaultChainConstants under build.Release = release, the clock reading
\* now (CurrentTimestamp()).
DefaultChainConstants(release, now) ==
    IF release = "dev" THEN DevConstants
    ELSE IF release = "testing" THEN TestingConstants(now)
    ELSE StandardConstants

\* Chain constants: two genesis timestamps, allocations of no, one or two
\* outputs and two settings of constants GenesisBlock does not read.
GenesisAllocations ==
    {<<>>, <<[Value |-> 5, UnlockHash |-> 9]>>,
     <<[Value |-> 5, UnlockHash |-> 9], [Value |-> 3, UnlockHash |-> 10]>>}
ChainConstantsValues ==
    [GenesisTimestamp : {GenesisTimestamp, GenesisTimestamp + 1},
     GenesisBlockStakeAllocation : GenesisAllocations,
     GenesisCoinDistribution : GenesisAllocations,
     BlockFrequency : {BlockFrequency, BlockFrequency + 1},
     TargetWindow : {TargetWindow, TargetWindow + 1}]
GenesisBlockCalls ==
    {[fn |-> "GenesisBlock", c |-> c, d |-> d, done |-> FALSE,
      out |-> [ParentID |-> ZeroID, Timestamp |-> 0, Transactions |-> <<>>],
      outD |-> [ParentID |-> ZeroID, Timestamp |-> 0, Transactions |-> <<>>],
      id |-> <<>>, idD |-> <<>>] :
         c \in ChainConstantsValues, d \in ChainConstantsValues}

\* Chain constants handed to Validate: each allocation empty or not, the
\* genesis timestamp before, at and after the reference timestamp.
ValidateConstants ==
    [GenesisTimestamp : {0, BitcoinGenesisTimestamp - 1, BitcoinGenesisTimestamp,
                         BitcoinGenesisTimestamp + 1},
     GenesisBlockStakeAllocation : GenesisAllocations,
     GenesisCoinDistribution : GenesisAllocations,
     BlockFrequency : {BlockFrequency}, TargetWindow : {TargetWindow}]
ValidateCalls ==
    {[fn |-> "Validate", c |-> x, given |-> x, done |-> FALSE,
      out |-> [err |-> Nil]] :
         x \in ValidateConstants}
\* Chain constants handed to StartDifficulty: block frequencies from 0 to
\* the largest BlockHeight, allocations that are empty, of zero Values and
\* of positive Values.
StakeAllocations ==
    GenesisAllocations
        \cup {<<[Value |-> 0, UnlockHash |-> 9]>>,
              <<[Value |-> 0, UnlockHash |-> 9], [Value |-> 0, UnlockHash |-> 10]>>,
              <<[Value |-> 0, UnlockHash |-> 9], [Value |-> 3, UnlockHash |-> 10]>>}
BlockFrequencies ==
    {0, 1, 2, TimestampModulus \div 2 - 1, TimestampModulus \div 2,
     TimestampModulus - 1}
StartDifficultyCalls ==
    {[fn |-> "StartDifficulty",
      c |-> [GenesisTimestamp |-> GenesisTimestamp,
             GenesisBlockStakeAllocation |-> bs,
             GenesisCoinDistribution |-> <<>>,
             BlockFrequency |-> bf, TargetWindow |-> TargetWindow],
      onNegative |-> n, done |-> FALSE, out |-> 0, rootTarget |-> 0] :
         bs \in StakeAllocations, bf \in BlockFrequencies,
         n \in {"zero", "kept"}}
\* The build profiles, and clocks that read the time of the genesis of the
\* standard net or a later time.
Releases == {"dev", "testing", "standard"}
Clocks == {1496322000, 1793836800}
DefaultChainConstantsCalls ==
    {[fn |-> "DefaultChainConstants", release |-> r, now |-> n,
      done |-> FALSE, out |-> <<>>, valid |-> Nil] :
         r \in Releases, n \in Clocks}

InitTypes ==
    /\ blockMap = BucketPut(<<>>, GenesisBlockID, Marshal(GenesisNode))
    /\ currentPath = <<GenesisBlockID>>
    /\ feed = <<>>
    /\ wallet = NewWallet
    /\ call \in ValidSignaturesCalls(InputLists(MaxInputs)) \cup SortedUniqueCalls
                 \cup InputSigHashCalls(HashPlans) \cup GenesisBlockCalls
                 \cup ValidateCalls \cup StartDifficultyCalls
                 \cup DefaultChainConstantsCalls

CallValidSignatures ==
    /\ call.fn = "validSignatures"
    /\ ~call.done
    /\ call' = [call EXCEPT !.done = TRUE,
                            !.out = validSignatures(call.t, call.currentHeight)]
    /\ UNCHANGED <<blockMap, currentPath, feed, wallet>>

CallSortedUnique ==
    /\ call.fn = "sortedUnique"
    /\ ~call.done
    /\ call' = [call EXCEPT !.done = TRUE,
                            !.out = sortedUnique(call.elems, call.max)]
    /\ UNCHANGED <<blockMap, currentPath, feed, wallet>>

\* InputSigHash of two transactions.
CallInputSigHash ==
    /\ call.fn = "InputSigHash"
    /\ ~call.done
    /\ call' = [call EXCEPT !.done = TRUE,
                            !.out = InputSigHash(call.t, call.inputIndex),
                            !.outU = InputSigHash(call.u, call.inputIndexU)]
    /\ UNCHANGED <<blockMap, currentPath, feed, wallet>>

\* GenesisBlock and GenesisBlockID of two values of the chain constants.
CallGenesisBlock ==
    /\ call.fn = "GenesisBlock"
    /\ ~call.done
    /\ call' = [call EXCEPT !.done = TRUE,
                            !.out = GenesisBlockOf(call.c),
                            !.outD = GenesisBlockOf(call.d),
                            !.id = GenesisBlockIDOf(call.c),
                            !.idD = GenesisBlockIDOf(call.d)]
    /\ UNCHANGED <<blockMap, currentPath, feed, wallet>>

\* Validate of a value of the chain constants.
CallValidate ==
    /\ call.fn = "Validate"
    /\ ~call.done
    /\ LET r == Validate(call.c)
       IN  call' = [call EXCEPT !.done = TRUE, !.out = [err |-> r.err],
                                !.c = r.c]
    /\ UNCHANGED <<blockMap, currentPath, feed, wallet>>

\* StartDifficulty and RootTarget of a value of the chain constants.
CallStartDifficulty ==
    /\ call.fn = "StartDifficulty"
    /\ ~call.done
    /\ call' = [call EXCEPT
                   !.done = TRUE,
                   !.out = StartDifficultyOf(call.c, call.onNegative),
                   !.rootTarget = RootTargetOf(call.c, call.onNegative)]
    /\ UNCHANGED <<blockMap, currentPath, feed, wallet>>

\* DefaultChainConstants under a build profile, and Validate of its result.
CallDefaultChainConstants ==
    /\ call.fn = "DefaultChainConstants"
    /\ ~call.done
    /\ LET cts == DefaultChainConstants(call.release, call.now)
       IN  call' = [call EXCEPT !.done = TRUE, !.out = cts,
                                !.valid = Validate(cts).err]
    /\ UNCHANGED <<blockMap, currentPath, feed, wallet>>

NextTypes ==
    \/ CallValidSignatures
    \/ CallSortedUnique
    \/ CallInputSigHash
    \/ CallGenesisBlock
    \/ CallValidate
    \/ CallStartDifficulty
    \/ CallDefaultChainConstants

SpecTypes == InitTypes /\ [][NextTypes]_vars

(***************************************************************************)
(* The block map under any sequence of newChild calls.                     *)
(***************************************************************************)
\* newChild of a block on its stored parent, whether or not the block is
\* stored already.
LinkChild(parent, ts) ==
    /\ Cardinality(DOMAIN blockMap) <= MaxBlocks
    /\ blockMap' = newChild(blockMap, Node(blockMap, parent),
                            [ParentID |-> parent, Timestamp |-> ts]).blockMap
    /\ UNCHANGED <<currentPath, feed, call, wallet>>

NextStore == \E parent \in DOMAIN blockMap, ts \in Timestamps : LinkChild(parent, ts)

SpecStore == Init /\ [][NextStore]_vars

\* newChild of a block that is not stored yet on its stored parent, the
\* node it returns kept.
CallNewChild(parent, ts) ==
    /\ Cardinality(DOMAIN blockMap) <= MaxBlocks
    /\ BlockID([ParentID |-> parent, Timestamp |-> ts]) \notin DOMAIN blockMap
    /\ LET b == [ParentID |-> parent, Timestamp |-> ts]
           made == newChild(blockMap, Node(blockMap, parent), b)
       IN  /\ blockMap' = made.blockMap
           /\ call' = [fn |-> "newChild", pb |-> parent, b |-> b,
                       out |-> made.child]
    /\ UNCHANGED <<currentPath, feed, wallet>>

NextNewChild ==
    \E parent \in DOMAIN blockMap, ts \in Timestamps : CallNewChild(parent, ts)

SpecNewChild == Init /\ [][NextNewChild]_vars

(***************************************************************************)
(* The diffs of a block on the sets of unspent outputs.                    *)
(***************************************************************************)
\* Output IDs of the coin outputs are drawn from 1..MaxOutputID.
MaxOutputID == 2
\* Number of diffs of a block, of the three kinds together.
MaxDiffs == 2

DiffApply == "apply"
DiffRevert == "revert"

\* A set of unspent outputs is a function from the IDs of its outputs.  An
\* output that is added must be absent and one that is removed present:
\* anything else is a consistency fault.
addOutput(outputs, id, output) ==
    IF id \in DOMAIN outputs THEN [fault |-> TRUE, outputs |-> outputs]
    ELSE [fault |-> FALSE,
          outputs |-> [k \in DOMAIN outputs \cup {id} |->
                          IF k = id THEN output ELSE outputs[k]]]
removeOutput(outputs, id) ==
    IF id \notin DOMAIN outputs THEN [fault |-> TRUE, outputs |-> outputs]
    ELSE [fault |-> FALSE,
          outputs |-> [k \in DOMAIN outputs \ {id} |-> outputs[k]]]

\* A diff committed in its own direction adds its output, in the other
\* direction removes it.
commitDiff(outputs, diff, dir) ==
    IF diff.Direction = dir
    THEN addOutput(outputs, diff.ID, diff.Output)
    ELSE removeOutput(outputs, diff.ID)

\* The diffs of one kind committed in order.
RECURSIVE commitDiffs(_, _, _)
commitDiffs(outputs, diffs, dir) ==
    IF diffs = <<>> THEN [fault |-> FALSE, outputs |-> outputs]
    ELSE LET first == commitDiff(outputs, Head(diffs), dir)
         IN  IF first.fault THEN first
             ELSE commitDiffs(first.outputs, Tail(diffs), dir)
Reverse(s) == [i \in 1..Len(s) |-> s[Len(s) + 1 - i]]

\* The checksum of the consensus set: the hash of its serialized state, the
\* outputs of each kind in the order of their IDs.
RECURSIVE SerializeOutputs(_, _)
SerializeOutputs(outputs, ids) ==
    IF ids = {} THEN <<>>
    ELSE LET id == CHOOSE i \in ids : \A j \in ids : i <= j
         IN  <<id, outputs[id]>> \o SerializeOutputs(outputs, ids \ {id})
consensusChecksum(ledger) ==
    <<SerializeOutputs(ledger.CoinOutputs, DOMAIN ledger.CoinOutputs),
      SerializeOutputs(ledger.BlockStakeOutputs, DOMAIN ledger.BlockStakeOutputs),
      SerializeOutputs(ledger.DelayedCoinOutputs, DOMAIN ledger.DelayedCoinOutputs)>>

\* The diffs of a processed block committed to the ledger: forwards in the
\* order they were generated, backwards in the reverse order.
revertDiffsInOrder(ledger, pb, dir) ==
    LET coins == commitDiffs(ledger.CoinOutputs, pb.CoinOutputDiffs, dir)
        stakes == commitDiffs(ledger.BlockStakeOutputs,
                              pb.BlockStakeOutputDiffs, dir)
        delayed == commitDiffs(ledger.DelayedCoinOutputs,
                               pb.DelayedCoinOutputDiffs, dir)
    IN  [fault |-> coins.fault \/ stakes.fault \/ delayed.fault,
         ledger |-> [CoinOutputs |-> coins.outputs,
                     BlockStakeOutputs |-> stakes.outputs,
                     DelayedCoinOutputs |-> delayed.outputs]]
commitBlockDiffs(ledger, pb, dir) ==
    LET ordered(diffs) == IF dir = DiffApply THEN diffs ELSE Reverse(diffs)
        coins == commitDiffs(ledger.CoinOutputs, ordered(pb.CoinOutputDiffs), dir)
        stakes == commitDiffs(ledger.BlockStakeOutputs,
                              ordered(pb.BlockStakeOutputDiffs), dir)
        delayed == commitDiffs(ledger.DelayedCoinOutputs,
                               ordered(pb.DelayedCoinOutputDiffs), dir)
    IN  [fault |-> coins.fault \/ stakes.fault \/ delayed.fault,
         ledger |-> [CoinOutputs |-> coins.outputs,
                     BlockStakeOutputs |-> stakes.outputs,
                     DelayedCoinOutputs |-> delayed.outputs]]

\* The diffs of the inputs and outputs of a block, generated against the
\* outputs they are applied to: an input that spends an output gives a diff
\* of direction DiffRevert that carries the output spent, an output gives a
\* diff of direction DiffApply.  A block that spends an output that is not
\* there, or creates one that is, is invalid.
RECURSIVE generateDiffs(_, _)
generateDiffs(outputs, ops) ==
    IF ops = <<>> THEN [invalid |-> FALSE, diffs |-> <<>>]
    ELSE LET op == Head(ops)
             spends == op.Kind = "input"
             diff == [Direction |-> IF spends THEN DiffRevert ELSE DiffApply,
                      ID |-> op.ID,
                      Output |-> IF spends /\ op.ID \in DOMAIN outputs
                                 THEN outputs[op.ID] ELSE op.Output]
             step == commitDiff(outputs, diff, DiffApply)
         IN  IF step.fault THEN [invalid |-> TRUE, diffs |-> <<>>]
             ELSE LET rest == generateDiffs(step.outputs, Tail(ops))
                  IN  [invalid |-> rest.invalid,
                       diffs |-> <<diff>> \o rest.diffs]

\* Ledgers and blocks: coin outputs of value 1 or 2 under the IDs
\* 1..MaxOutputID, one block-stake output and one delayed coin output.
PartialFunctions(ids, values) == UNION {[s -> values] : s \in SUBSET ids}
Ledgers ==
    [CoinOutputs : PartialFunctions(1..MaxOutputID, 1..2),
     BlockStakeOutputs : PartialFunctions({1}, {1}),
     DelayedCoinOutputs : PartialFunctions({1}, {1})]
OpsOf(ids, values) ==
    [Kind : {"input"}, ID : ids, Output : {1}]
        \cup [Kind : {"output"}, ID : ids, Output : values]
BlockOps(maxDiffs) ==
    {x \in [Coin : SeqsUpTo(OpsOf(1..MaxOutputID, 1..2), maxDiffs),
            BlockStake : SeqsUpTo(OpsOf({1}, {1}), maxDiffs),
            DelayedCoin : SeqsUpTo(OpsOf({1}, {1}), maxDiffs)] :
         Len(x.Coin) + Len(x.BlockStake) + Len(x.DelayedCoin) <= maxDiffs}

NoDiffs ==
    [DiffsGenerated |-> FALSE, CoinOutputDiffs |-> <<>>,
     BlockStakeOutputDiffs |-> <<>>, DelayedCoinOutputDiffs |-> <<>>,
     ConsensusChecksum |-> <<>>]

InitDiffs ==
    /\ blockMap = BucketPut(<<>>, GenesisBlockID, Marshal(GenesisNode))
    /\ currentPath = <<GenesisBlockID>>
    /\ feed = <<>>
    /\ wallet = NewWallet
    /\ call \in {[fn |-> "diffs", phase |-> "start", ops |-> ops,
                  pb |-> NoDiffs, applied |-> l,
                  ledger |-> l, checksum |-> consensusChecksum(l),
                  prior |-> l, priorChecksum |-> consensusChecksum(l)] :
                     l \in Ledgers, ops \in BlockOps(MaxDiffs)}

\* A block is applied for the first time: its diffs are generated, committed
\* and kept in its node with the checksum of the new state.
GenerateAndApplyDiffs ==
    /\ call.fn = "diffs"
    /\ call.phase = "start"
    /\ LET coins == generateDiffs(call.ledger.CoinOutputs, call.ops.Coin)
           stakes == generateDiffs(call.ledger.BlockStakeOutputs,
                                   call.ops.BlockStake)
           delayed == generateDiffs(call.ledger.DelayedCoinOutputs,
                                    call.ops.DelayedCoin)
           pb == [DiffsGenerated |-> TRUE,
                  CoinOutputDiffs |-> coins.diffs,
                  BlockStakeOutputDiffs |-> stakes.diffs,
                  DelayedCoinOutputDiffs |-> delayed.diffs,
                  ConsensusChecksum |-> <<>>]
           r == commitBlockDiffs(call.ledger, pb, DiffApply)
       IN  call' = IF coins.invalid \/ stakes.invalid \/ delayed.invalid
                   THEN [call EXCEPT !.phase = "invalid"]
                   ELSE [call EXCEPT
                            !.phase = "applied",
                            !.pb = [pb EXCEPT !.ConsensusChecksum =
                                                  consensusChecksum(r.ledger)],
                            !.ledger = r.ledger,
                            !.applied = r.ledger,
                            !.checksum = consensusChecksum(r.ledger)]
    /\ UNCHANGED <<blockMap, currentPath, feed, wallet>>

\* The diffs of the node committed in direction dir; a consistency fault
\* stops the processing.
commitDiffSet(c, dir, to) ==
    LET r == commitBlockDiffs(c.ledger, c.pb, dir)
    IN  IF r.fault THEN [c EXCEPT !.phase = "fault"]
        ELSE [c EXCEPT !.phase = to, !.ledger = r.ledger,
                       !.checksum = consensusChecksum(r.ledger)]

\* The block is reverted.
RevertBlockDiffs ==
    /\ call.fn = "diffs"
    /\ call.phase = "applied"
    /\ call.pb.DiffsGenerated
    /\ call' = commitDiffSet(call, DiffRevert, "reverted")
    /\ UNCHANGED <<blockMap, currentPath, feed, wallet>>

\* The block is applied again, from the diffs of its node.
ApplyBlockDiffs ==
    /\ call.fn = "diffs"
    /\ call.phase = "reverted"
    /\ call.pb.DiffsGenerated
    /\ call' = commitDiffSet(call, DiffApply, "reapplied")
    /\ UNCHANGED <<blockMap, currentPath, feed, wallet>>

NextDiffs == GenerateAndApplyDiffs \/ RevertBlockDiffs \/ ApplyBlockDiffs

SpecDiffs == InitDiffs /\ [][NextDiffs]_vars

(***************************************************************************)
(* CreateBackup called by several goroutines while the wallet is stopped.  *)
(***************************************************************************)
\* Goroutine t is about to execute statement stmt of CreateBackup.
At(t, stmt) ==
    /\ wallet.threads[t].pc \in DOMAIN CreateBackupBody
    /\ CreateBackupBody[wallet.threads[t].pc] = stmt
\* The thread of t with its position moved to the next statement.
Advance(t) == [wallet.threads[t] EXCEPT !.pc = @ + 1]

\* A goroutine calls CreateBackup(backupFilepath).
CreateBackup(t, backupFilepath) ==
    /\ wallet.threads[t].pc \in {NotCalled, Returned}
    /\ wallet' = [wallet EXCEPT !.threads[t] =
                     [pc |-> 1, backupFilepath |-> backupFilepath,
                      err |-> Nil, inside |-> FALSE]]
    /\ UNCHANGED <<blockMap, currentPath, feed, call>>

\* w.tg.Add(): an error once the thread group is stopped, and then
\* CreateBackup returns it at once; else the call is counted.
TgAdd(t) ==
    /\ At(t, "tg.Add")
    /\ wallet' = IF wallet.tg.stopped
                 THEN [wallet EXCEPT !.threads[t].err = ErrStopped,
                                     !.threads[t].pc = Returned]
                 ELSE [wallet EXCEPT !.tg.n = @ + 1,
                                     !.threads[t] = Advance(t)]
    /\ UNCHANGED <<blockMap, currentPath, feed, call>>

\* w.mu.Lock(): waits until the mutex is free.
MuLock(t) ==
    /\ At(t, "mu.Lock")
    /\ wallet.mu = NoThread
    /\ wallet' = [wallet EXCEPT !.mu = t, !.threads[t] = Advance(t)]
    /\ UNCHANGED <<blockMap, currentPath, feed, call>>

\* createBackup is entered: the file cannot be created and the write fails
\* at once, or the file is created and the write is under way.
EnterCreateBackup(t) ==
    /\ At(t, "createBackup")
    /\ ~wallet.threads[t].inside
    /\ \E created \in BOOLEAN :
           wallet' =
               IF created
               THEN [wallet EXCEPT
                        !.files[wallet.threads[t].backupFilepath] = "partial",
                        !.threads[t].inside = TRUE]
               ELSE [wallet EXCEPT
                        !.threads[t] = [Advance(t) EXCEPT !.err = ErrWrite]]
    /\ UNCHANGED <<blockMap, currentPath, feed, call>>

\* createBackup returns: the file is written and synced, or the write
\* failed part of the way.
LeaveCreateBackup(t) ==
    /\ At(t, "createBackup")
    /\ wallet.threads[t].inside
    /\ \E synced \in BOOLEAN :
           wallet' =
               IF synced
               THEN [wallet EXCEPT
                        !.files[wallet.threads[t].backupFilepath] = "backup",
                        !.threads[t] = [Advance(t) EXCEPT !.inside = FALSE]]
               ELSE [wallet EXCEPT
                        !.threads[t] = [Advance(t) EXCEPT !.inside = FALSE,
                                                          !.err = ErrWrite]]
    /\ UNCHANGED <<blockMap, currentPath, feed, call>>

\* The deferred w.mu.Unlock().
MuUnlock(t) ==
    /\ At(t, "mu.Unlock")
    /\ wallet' = [wallet EXCEPT !.mu = NoThread, !.threads[t] = Advance(t)]
    /\ UNCHANGED <<blockMap, currentPath, feed, call>>

\* The deferred w.tg.Done().
TgDone(t) ==
    /\ At(t, "tg.Done")
    /\ wallet' = [wallet EXCEPT !.tg.n = @ - 1, !.threads[t] = Advance(t)]
    /\ UNCHANGED <<blockMap, currentPath, feed, call>>

\* The wallet is closed: the thread group is stopped and takes no new call.
TgStop ==
    /\ ~wallet.tg.stopped
    /\ wallet' = [wallet EXCEPT !.tg.stopped = TRUE]
    /\ UNCHANGED <<blockMap, currentPath, feed, call>>

\* Stop returns once every call that was counted is done, and the storage
\* of the wallet is released.
TgStopReturns ==
    /\ wallet.tg.stopped
    /\ ~wallet.tg.closed
    /\ wallet.tg.n = 0
    /\ wallet' = [wallet EXCEPT !.tg.closed = TRUE]
    /\ UNCHANGED <<blockMap, currentPath, feed, call>>

NextWallet ==
    \/ \E t \in Threads, backupFilepath \in BackupFilepaths :
           CreateBackup(t, backupFilepath)
    \/ \E t \in Threads : TgAdd(t)
    \/ \E t \in Threads : MuLock(t)
    \/ \E t \in Threads : EnterCreateBackup(t)
    \/ \E t \in Threads : LeaveCreateBackup(t)
    \/ \E t \in Threads : MuUnlock(t)
    \/ \E t \in Threads : TgDone(t)
    \/ TgStop
    \/ TgStopReturns

SpecWallet == Init /\ [][NextWallet]_vars

(***************************************************************************)
(* Vocabulary of the properties.                                           *)
(***************************************************************************)
StoredIDs == DOMAIN blockMap
ChildIDs == StoredIDs \ {GenesisBlockID}
ParentOf(bm, id) == Node(bm, Node(bm, id).Block.ParentID)
HalfWindow == TargetWindow \div 2
Min(a, b) == IF a < b THEN a ELSE b

\* The k-th ancestor of id.
RECURSIVE Ancestor(_, _, _)
Ancestor(bm, id, k) ==
    IF k = 0 THEN id ELSE Ancestor(bm, Node(bm, id).Block.ParentID, k - 1)

\* id is a or an ancestor of a.
RECURSIVE OnPathTo(_, _, _)
OnPathTo(bm, id, a) ==
    IF a = id THEN TRUE
    ELSE IF a = ZeroID THEN FALSE
    ELSE OnPathTo(bm, id,
                  UnmarshalBlockHeadersParentIDAndTS(BucketGet(bm, a))[1])

\* The surpass requirement of a current tip with the given depth and target.
Requirement(depth, childTarget) ==
    AddDifficulties(depth, MulDifficulty(childTarget, <<20, 100>>))

HeavierThanDone == call.fn = "heavierThan" /\ call.done
ClampDone == call.fn = "clampTargetAdjustment" /\ call.done

(***************************************************************************)
(* Fork choice.                                                            *)
(***************************************************************************)
\* C1: candidate.heavierThan(current) is true exactly when
\* current.Depth.AddDifficulties(current.ChildTarget.MulDifficulty(20/100))
\* is numerically greater than candidate.Depth; the candidate's own
\* ChildTarget plays no part.
C1_HeavierThanIffRequirement ==
    HeavierThanDone =>
        (call.out <=>
            Requirement(call.cmp.Depth, call.cmp.ChildTarget) > call.pb.Depth)

\* A candidate that is heavier, and would not be were the margin taken from
\* its own ChildTarget.
C1_Witness ==
    /\ HeavierThanDone
    /\ call.out
    /\ call.pb.ChildTarget # call.cmp.ChildTarget
    /\ ~(Requirement(call.cmp.Depth, call.pb.ChildTarget) > call.pb.Depth)

\* C2 as stated: with equal ChildTarget, a numerically smaller Depth makes
\* a.heavierThan(b) true.
C2_SmallerDepthIsHeavier ==
    (/\ HeavierThanDone
     /\ call.pb.ChildTarget = call.cmp.ChildTarget
     /\ call.pb.Depth < call.cmp.Depth) => call.out

\* C2 amended: with equal ChildTarget, a.heavierThan(b) is true only if
\* a.Depth is numerically smaller than b.Depth, and is true whenever a.Depth
\* is numerically smaller than b's surpass requirement.
C2_HeavierOnlyIfSmallerDepth ==
    (HeavierThanDone /\ call.pb.ChildTarget = call.cmp.ChildTarget) =>
        /\ call.out => call.pb.Depth < call.cmp.Depth
        /\ call.pb.Depth < Requirement(call.cmp.Depth, call.cmp.ChildTarget)
               => call.out

\* Two nodes with one ChildTarget, the heavier one with the smaller Depth.
C2_Witness ==
    /\ HeavierThanDone
    /\ call.pb.ChildTarget = call.cmp.ChildTarget
    /\ call.out
    /\ call.pb.Depth < call.cmp.Depth

\* b2's chain leaves a's chain one block before a: b2's parent is a sibling
\* of a.
ForksOneBlockBefore(bm, a, b2) ==
    LET b1 == Node(bm, b2).Block.ParentID
    IN  /\ a # GenesisBlockID
        /\ b1 # a
        /\ b1 # GenesisBlockID
        /\ Node(bm, b1).Block.ParentID = Node(bm, a).Block.ParentID

\* The work of b2's depth is at least the work of a's depth plus a quarter of
\* the difficulty of a's ChildTarget: 1/Db >= 1/Da + 1/(4 Ta).
QuarterBlockAhead(bm, a, b2) ==
    LET Da == Node(bm, a).Depth
        Ta == Node(bm, a).ChildTarget
        Db == Node(bm, b2).Depth
    IN  RatCmp(<<1, Db>>, RatAdd(<<1, Da>>, <<1, 4 * Ta>>)) >= 0

C4_HeightIsParentHeightPlusOne ==
    \A id \in ChildIDs :
        Node(blockMap, id).Height = ParentOf(blockMap, id).Height + 1

\* A chain of three blocks on the genesis block.
C4_Witness == \E id \in ChildIDs : Node(blockMap, id).Height = 3

C6_InheritsOffBoundary ==
    \A id \in ChildIDs :
        Node(blockMap, id).Height % (TargetWindow \div 2) # 0
            => Node(blockMap, id).ChildTarget
                   = ParentOf(blockMap, id).ChildTarget

\* A node off the boundary whose timestamps would have changed the target,
\* had it been retargeted.
C6_Witness ==
    \E id \in ChildIDs :
        LET n == Node(blockMap, id)
        IN  /\ n.Height % (TargetWindow \div 2) # 0
            /\ n.Block.Timestamp # ParentOf(blockMap, id).Block.Timestamp
            /\ RatToTarget(RatMul(TargetRat(ParentOf(blockMap, id).ChildTarget),
                   clampTargetAdjustment(targetAdjustmentBase(blockMap, n))))
                   # n.ChildTarget

\* The ratio of the window of the node stored under id: the time from the
\* block min(TargetWindow, Height) blocks above it to the block whose
\* timestamp is `last`, over BlockFrequency x that number of blocks.
WindowRatio(bm, id, last) ==
    LET windowSize == Min(TargetWindow, Node(bm, id).Height)
        start == Node(bm, Ancestor(bm, id, windowSize)).Block.Timestamp
    IN  <<last - start, BlockFrequency * windowSize>>

\* x clamped into [10/25, 25/10].
Clamped(x) ==
    IF x[1] * 10 > 25 * x[2] THEN <<25, 10>>
    ELSE IF x[1] * 25 < 10 * x[2] THEN <<10, 25>>
    ELSE x

\* C7: a node whose Height is a multiple of TargetWindow/2 has the target
\* RatToTarget(parent.ChildTarget x the clamped adjustment), which is the
\* parent's target times a factor in [10/25, 25/10] up to the truncation; a
\* node's ChildTarget differs from its parent's only at such a height.
C7_RetargetsOnBoundary ==
    \A id \in ChildIDs :
        LET n == Node(blockMap, id)
            p == ParentOf(blockMap, id)
            adjustment == Clamped(WindowRatio(blockMap, id, n.Block.Timestamp))
        IN  /\ n.Height % HalfWindow = 0 =>
                /\ n.ChildTarget =
                       IntToTarget((p.ChildTarget * adjustment[1])
                                       \div adjustment[2])
                /\ 25 * (n.ChildTarget + 1) > 10 * p.ChildTarget
                /\ 10 * n.ChildTarget <= 25 * p.ChildTarget
            /\ n.ChildTarget # p.ChildTarget => n.Height % HalfWindow = 0

\* A node on the boundary whose adjustment is inside the clamp and changes
\* the target.
C7_Witness ==
    \E id \in ChildIDs :
        LET n == Node(blockMap, id)
            base == targetAdjustmentBase(blockMap, n)
        IN  /\ n.Height % HalfWindow = 0
            /\ RatCmp(base, MaxAdjustmentUp) < 0
            /\ RatCmp(base, MaxAdjustmentDown) > 0
            /\ n.ChildTarget # ParentOf(blockMap, id).ChildTarget

\* C8: the result of clampTargetAdjustment lies in [MaxAdjustmentDown,
\* MaxAdjustmentUp]; it is the input when the input lies there,
\* MaxAdjustmentUp when the input is above and MaxAdjustmentDown when it is
\* below.
C8_ClampIntoInterval ==
    ClampDone =>
        LET b == call.base
            r == call.out
        IN  /\ 25 * r[1] >= 10 * r[2]
            /\ 10 * r[1] <= 25 * r[2]
            /\ (25 * b[1] >= 10 * b[2] /\ 10 * b[1] <= 25 * b[2]) => r = b
            /\ 10 * b[1] > 25 * b[2] => r = <<25, 10>>
            /\ 25 * b[1] < 10 * b[2] => r = <<10, 25>>

\* An input above the interval, clamped to MaxAdjustmentUp.
C8_Witness ==
    /\ ClampDone
    /\ 10 * call.base[1] > 25 * call.base[2]
    /\ call.out = MaxAdjustmentUp

\* C9 as stated: the ratio is the time from the start of the window to the
\* block of the node's parent, over BlockFrequency x windowSize.
C9_TimePassedToParent ==
    \A id \in ChildIDs :
        RatCmp(targetAdjustmentBase(blockMap, Node(blockMap, id)),
               WindowRatio(blockMap, id,
                           ParentOf(blockMap, id).Block.Timestamp)) = 0

\* C9 amended: the ratio is the time from the start of the window to the
\* node's own block, over BlockFrequency x windowSize, the window starting
\* min(TargetWindow, Height) blocks above the node.
C9_TimePassedToNode ==
    \A id \in ChildIDs :
        RatCmp(targetAdjustmentBase(blockMap, Node(blockMap, id)),
               WindowRatio(blockMap, id,
                           Node(blockMap, id).Block.Timestamp)) = 0

\* A node with a full window behind it that starts after the genesis block,
\* whose timestamp is not its parent's.
C9_Witness ==
    \E id \in ChildIDs :
        /\ Node(blockMap, id).Height > TargetWindow
        /\ Node(blockMap, id).Block.Timestamp
               # ParentOf(blockMap, id).Block.Timestamp

\* C10: two nodes under one parent at a height that is not a multiple of
\* TargetWindow/2 have one ChildTarget; so have two nodes of one chain whose
\* heights lie between the same two retarget boundaries.
C10_SiblingsShareTarget ==
    \A a \in ChildIDs, b \in ChildIDs :
        LET na == Node(blockMap, a)
            nb == Node(blockMap, b)
        IN  /\ (/\ na.Block.ParentID = nb.Block.ParentID
                /\ na.Height % HalfWindow # 0)
               => na.ChildTarget = nb.ChildTarget
            /\ (/\ na.Height % HalfWindow # 0
                /\ nb.Height % HalfWindow # 0
                /\ na.Height \div HalfWindow = nb.Height \div HalfWindow
                /\ OnPathTo(blockMap, a, b))
               => na.ChildTarget = nb.ChildTarget

\* Two siblings off the boundary with different timestamps, and a node and
\* its child between two boundaries with different timestamps.
C10_Witness ==
    /\ \E a \in ChildIDs, b \in ChildIDs :
          /\ a # b
          /\ Node(blockMap, a).Block.ParentID = Node(blockMap, b).Block.ParentID
          /\ Node(blockMap, a).Height % HalfWindow # 0
    /\ \E a \in ChildIDs, b \in ChildIDs :
          /\ Node(blockMap, b).Block.ParentID = a
          /\ Node(blockMap, a).Height % HalfWindow # 0
          /\ Node(blockMap, b).Height % HalfWindow # 0
          /\ Node(blockMap, a).Block.Timestamp # Node(blockMap, b).Block.Timestamp

(***************************************************************************)
(* Transaction signatures.                                                 *)
(***************************************************************************)
ValidSignaturesDone == call.fn = "validSignatures" /\ call.done
SortedUniqueDone == call.fn = "sortedUnique" /\ call.done
InputSigHashDone == call.fn = "InputSigHash" /\ call.done

\* The inputs of t in the order of validSignatures: the coin inputs, then
\* the block-stake inputs, each with its kind and its index in its list.
InputsInOrder(t) ==
    [k \in 1..(Len(t.CoinInputs) + Len(t.BlockStakeInputs)) |->
        IF k <= Len(t.CoinInputs)
        THEN [kind |-> "coin", index |-> k - 1, input |-> t.CoinInputs[k]]
        ELSE [kind |-> "blockstake", index |-> k - Len(t.CoinInputs) - 1,
              input |-> t.BlockStakeInputs[k - Len(t.CoinInputs)]]]
\* The k-th input repeats the ParentID of an earlier input of its list.
Repeats(t, k) ==
    LET all == InputsInOrder(t)
    IN  \E j \in 1..(k - 1) :
            /\ all[j].kind = all[k].kind
            /\ all[j].input.ParentID = all[k].input.ParentID
\* What Unlock returns for the k-th input on its own.
UnlockAlone(t, k) ==
    LET all == InputsInOrder(t)
    IN  Unlock(all[k].input.Unlocker, all[k].index, t)
\* The error of the k-th step: the duplicate check, then Unlock.
StepError(t, k) == IF Repeats(t, k) THEN ErrDoubleSpend ELSE UnlockAlone(t, k)
\* The inputs Unlock was invoked for.
Unlocked == {call.out.unlocked[i] : i \in DOMAIN call.out.unlocked}
Invoked(t, k) ==
    <<InputsInOrder(t)[k].kind, InputsInOrder(t)[k].index>> \in Unlocked

\* C11: a transaction in which two coin inputs carry the same ParentID and
\* every input's Unlock succeeds on its own is rejected with ErrDoubleSpend,
\* and Unlock is not invoked for a coin input that repeats a ParentID.
C11_CoinDoubleSpendRejected ==
    ValidSignaturesDone =>
        LET t == call.t
            all == InputsInOrder(t)
        IN  (/\ \E k \in DOMAIN all : all[k].kind = "coin" /\ Repeats(t, k)
             /\ \A k \in DOMAIN all : UnlockAlone(t, k) = Nil)
            => /\ call.out.err = ErrDoubleSpend
               /\ \A k \in DOMAIN all :
                      all[k].kind = "coin" /\ Repeats(t, k) => ~Invoked(t, k)
C11_Witness ==
    /\ ValidSignaturesDone
    /\ Len(call.t.CoinInputs) = 2
    /\ Repeats(call.t, 2)
    /\ \A k \in DOMAIN InputsInOrder(call.t) : UnlockAlone(call.t, k) = Nil
    /\ call.out.err = ErrDoubleSpend
    /\ call.out.unlocked = <<(<<"coin", 0>>)>>

C13_FirstErrorAllOrNothing ==
    ValidSignaturesDone =>
        LET t == call.t
            all == InputsInOrder(t)
            failing == {k \in DOMAIN all : StepError(t, k) # Nil}
        IN  /\ (call.out.err = Nil) <=>
                   /\ \A k \in DOMAIN all : ~Repeats(t, k)
                   /\ \A k \in DOMAIN all : UnlockAlone(t, k) = Nil
            /\ failing = {} =>
                   call.out.unlocked =
                       [k \in DOMAIN all |-> <<all[k].kind, all[k].index>>]
            /\ \A k \in failing :
                   (\A j \in failing : k <= j) =>
                       /\ call.out.err = StepError(t, k)
                       /\ call.out.unlocked =
                              [j \in 1..(IF Repeats(t, k) THEN k - 1 ELSE k) |->
                                  <<all[j].kind, all[j].index>>]
C13_Witness ==
    /\ ValidSignaturesDone
    /\ Len(call.t.CoinInputs) = 1
    /\ Len(call.t.BlockStakeInputs) = 1
    /\ UnlockAlone(call.t, 1) = ErrInvalidSignature
    /\ UnlockAlone(call.t, 2) = ErrEntropyKey
    /\ call.out.err = ErrInvalidSignature
    /\ call.out.unlocked = <<(<<"coin", 0>>)>>

\* C14: sortedUnique(elems, max) is true exactly when elems is strictly
\* increasing and every element is below max; the empty list is accepted
\* for every max, 0 included.
C14_SortedUniqueIff ==
    SortedUniqueDone =>
        (call.out <=>
            /\ \A i, j \in DOMAIN call.elems :
                   i < j => call.elems[i] < call.elems[j]
            /\ \A i \in DOMAIN call.elems : call.elems[i] < call.max)
C14_Witness ==
    /\ SortedUniqueDone
    /\ call.elems = <<>>
    /\ call.max = 0
    /\ call.out

\* What InputSigHash covers of a transaction.
CoveredInputs(inputs) ==
    [i \in DOMAIN inputs |->
        <<inputs[i].ParentID, UnlockHash(inputs[i].Unlocker)>>]
Covered(t, inputIndex) ==
    <<<<inputIndex>>, CoveredInputs(t.CoinInputs), t.CoinOutputs,
      CoveredInputs(t.BlockStakeInputs), t.BlockStakeOutputs, t.MinerFees,
      t.ArbitraryData>>

\* C15: two transactions that agree on inputIndex, on the ParentID and the
\* unlock hash of every coin and block-stake input, on CoinOutputs,
\* BlockStakeOutputs, MinerFees and ArbitraryData have the same
\* InputSigHash, whatever signatures their inputs carry; a change of one of
\* these fields changes the data fed to the hash.
C15_SigHashExcludesSignatures ==
    InputSigHashDone =>
        LET a == Covered(call.t, call.inputIndex)
            b == Covered(call.u, call.inputIndexU)
            changed == {f \in DOMAIN a : a[f] # b[f]}
        IN  /\ changed = {} => call.out = call.outU
            /\ Cardinality(changed) = 1 => call.out # call.outU
C15_Witness ==
    /\ InputSigHashDone
    /\ Covered(call.t, call.inputIndex) = Covered(call.u, call.inputIndexU)
    /\ Len(call.t.CoinInputs) = 1
    /\ call.t.CoinInputs[1].Unlocker.Signature
           # call.u.CoinInputs[1].Unlocker.Signature
    /\ call.out = call.outU

\* The only input of the transaction is a coin input locked by a TimeLock
\* of height 100 around a SingleSignature condition with a correct
\* signature.
TimeLockedSpend(t) ==
    /\ Len(t.CoinInputs) = 1
    /\ t.BlockStakeInputs = <<>>
    /\ t.CoinInputs[1].Unlocker.Type = "TimeLock"
    /\ t.CoinInputs[1].Unlocker.LockHeight = 100
    /\ Unlock(t.CoinInputs[1].Unlocker.Condition, 0, t) = Nil

\* C16: for a transaction spending an output locked by a TimeLock of height
\* 100 around a SingleSignature condition, with a correct signature,
\* validSignatures(99) returns ErrPrematureSignature and
\* validSignatures(100) returns nil.
C16_TimeLockByCurrentHeight ==
    ValidSignaturesDone /\ TimeLockedSpend(call.t) =>
        /\ call.currentHeight = 99 => call.out.err = ErrPrematureSignature
        /\ call.currentHeight = 100 => call.out.err = Nil

\* C17: an input whose public key carries the entropy specifier fails with
\* ErrEntropyKey whenever it is unlocked, and that is the result of
\* validSignatures; an input whose public key carries an unrecognized
\* specifier unlocks whatever its signature is, so a transaction of such
\* inputs with distinct ParentIDs is valid.
C17_EntropyFailsUnrecognizedVerifies ==
    ValidSignaturesDone =>
        LET t == call.t
            all == InputsInOrder(t)
            algorithm(k) == all[k].input.Unlocker.PublicKey.Algorithm
            single(k) == all[k].input.Unlocker.Type = "SingleSignature"
        IN  /\ \A k \in DOMAIN all :
                   /\ single(k)
                   /\ algorithm(k) = SignatureEntropy
                   /\ \A j \in 1..(k - 1) : StepError(t, j) = Nil
                   /\ ~Repeats(t, k)
                   => Invoked(t, k) /\ call.out.err = ErrEntropyKey
            /\ (/\ all # <<>>
                /\ \A k \in DOMAIN all :
                       /\ single(k)
                       /\ algorithm(k) \notin {SignatureEntropy, SignatureEd25519}
                       /\ ~Repeats(t, k))
               => /\ call.out.err = Nil
                  /\ \A k \in DOMAIN all : Invoked(t, k)
C17_Witness ==
    /\ ValidSignaturesDone
    /\ Len(call.t.CoinInputs) = 2
    /\ call.t.CoinInputs[1].Unlocker.Type = "SingleSignature"
    /\ call.t.CoinInputs[1].Unlocker.PublicKey.Algorithm = SignatureUnrecognized
    /\ call.t.CoinInputs[1].Unlocker.Signature.Signer = 0
    /\ call.t.CoinInputs[2].Unlocker.Type = "SingleSignature"
    /\ call.t.CoinInputs[2].Unlocker.PublicKey.Algorithm = SignatureEntropy
    /\ call.t.CoinInputs[1].ParentID # call.t.CoinInputs[2].ParentID
    /\ call.out.err = ErrEntropyKey
    /\ Len(call.out.unlocked) = 2

(***************************************************************************)
(* The chain store, the diffs and the genesis block.                       *)
(***************************************************************************)

\* C18: after any sequence of newChild calls every stored node is stored
\* under the ID of its own block, so there is one node per block and
\* get(id) returns the node whose Block.ID() is id; a newChild call adds at
\* most the node of its block and never changes the Block (hence the
\* ParentID) stored under a key, a call for a block that is stored already
\* included; every node but the genesis node has its parent stored.
C18_StoreKeyedByBlockID ==
    /\ [](\A id \in StoredIDs :
              /\ BlockID(Node(blockMap, id).Block) = id
              /\ id # GenesisBlockID =>
                     Node(blockMap, id).Block.ParentID \in StoredIDs)
    /\ [][/\ \A id \in DOMAIN blockMap :
                 /\ id \in DOMAIN blockMap'
                 /\ Node(blockMap', id).Block = Node(blockMap, id).Block
          /\ Cardinality(DOMAIN blockMap' \ DOMAIN blockMap) <= 1]_vars
C18_Witness ==
    /\ Cardinality(StoredIDs) = MaxBlocks + 1
    /\ \E a, b \in ChildIDs :
           /\ a # b
           /\ Node(blockMap, a).Block.ParentID = Node(blockMap, b).Block.ParentID
    /\ \A id \in StoredIDs : BlockID(Node(blockMap, id).Block) = id

\* C19: applying the coin, block-stake and delayed-coin output diffs of a
\* block to a ledger state in which they can be applied, and then reverting
\* them, restores the unspent outputs and the ConsensusChecksum of before,
\* without a consistency fault; applying them again gives the state the
\* first application gave.
C19_ApplyThenRevertRestores ==
    call.fn = "diffs" =>
        /\ call.phase # "fault"
        /\ call.phase = "reverted" =>
               /\ call.ledger = call.prior
               /\ call.checksum = call.priorChecksum
        /\ call.phase = "reapplied" =>
               /\ call.ledger = call.applied
               /\ call.checksum = call.pb.ConsensusChecksum
C19_Witness ==
    /\ call.fn = "diffs"
    /\ call.phase = "reverted"
    /\ Len(call.pb.CoinOutputDiffs) = 2
    /\ call.pb.CoinOutputDiffs[1].Direction = DiffRevert
    /\ call.pb.CoinOutputDiffs[1].Output = 2
    /\ call.pb.CoinOutputDiffs[2].Direction = DiffApply
    /\ call.pb.CoinOutputDiffs[2].ID = call.pb.CoinOutputDiffs[1].ID
    /\ call.pb.CoinOutputDiffs[2].Output = 1
    /\ call.ledger = call.prior

GenesisBlockDone == call.fn = "GenesisBlock" /\ call.done

\* C20: GenesisBlock() has the zero ParentID, the Timestamp
\* GenesisTimestamp and exactly one transaction, whose BlockStakeOutputs are
\* GenesisBlockStakeAllocation and whose CoinOutputs are
\* GenesisCoinDistribution; two values of the chain constants equal in
\* these three fields give the same genesis block and the same
\* GenesisBlockID.
C20_GenesisFromChainConstants ==
    GenesisBlockDone =>
        /\ call.out.ParentID = ZeroID
        /\ call.out.Timestamp = call.c.GenesisTimestamp
        /\ Len(call.out.Transactions) = 1
        /\ call.out.Transactions[1].BlockStakeOutputs
               = call.c.GenesisBlockStakeAllocation
        /\ call.out.Transactions[1].CoinOutputs = call.c.GenesisCoinDistribution
        /\ (/\ call.c.GenesisTimestamp = call.d.GenesisTimestamp
            /\ call.c.GenesisBlockStakeAllocation
                   = call.d.GenesisBlockStakeAllocation
            /\ call.c.GenesisCoinDistribution = call.d.GenesisCoinDistribution)
           => call.out = call.outD /\ call.id = call.idD
C20_Witness ==
    /\ GenesisBlockDone
    /\ call.c # call.d
    /\ call.c.GenesisBlockStakeAllocation # call.c.GenesisCoinDistribution
    /\ call.c.GenesisBlockStakeAllocation # <<>>
    /\ call.out = call.outD
    /\ call.id = call.idD

(***************************************************************************)
(* The wallet's backup.                                                    *)
(***************************************************************************)
\* The goroutines inside createBackup, and those counted by the thread
\* group: tg.Add has succeeded and tg.Done has not run yet.
InsideCreateBackup == {t \in Threads : wallet.threads[t].inside}
Counted ==
    {t \in Threads : wallet.threads[t].pc \in 2..Len(CreateBackupBody)}
HasReturned(w, t) == w.threads[t].pc = Returned

\* C21: CreateBackup first registers with the thread group; when that fails
\* because the wallet is stopping it returns that error, and the call has
\* taken no mutex and written no file.  Otherwise it holds the wallet mutex
\* for the whole write, so that no two calls are inside createBackup at
\* once, and when it returns, after a write error too, it has released the
\* mutex and is counted by the thread group no more.
C21_BackupUnderLockAndBarrier ==
    /\ [](/\ Cardinality(InsideCreateBackup) <= 1
          /\ \A t \in InsideCreateBackup : wallet.mu = t
          /\ \A t \in Threads :
                 At(t, "createBackup") \/ At(t, "mu.Unlock") => wallet.mu = t
          /\ \A t \in Threads : HasReturned(wallet, t) => wallet.mu # t
          /\ wallet.tg.n = Cardinality(Counted)
          /\ wallet.tg.closed => Counted = {})
    /\ [][\A t \in Threads :
              (/\ HasReturned(wallet', t)
               /\ ~HasReturned(wallet, t)
               /\ wallet'.threads[t].err = ErrStopped)
              => /\ wallet.tg.stopped
                 /\ wallet.threads[t].pc = 1
                 /\ wallet'.mu = wallet.mu
                 /\ wallet'.files = wallet.files
                 /\ wallet'.tg = wallet.tg]_vars

\* One call was turned away by the stopped thread group and wrote nothing;
\* another, registered before the stop, failed in its write and has
\* returned, the mutex free again and no call counted.
C21_Witness ==
    \E t, u \in Threads :
        /\ HasReturned(wallet, t)
        /\ wallet.threads[t].err = ErrStopped
        /\ wallet.files[wallet.threads[t].backupFilepath] = "absent"
        /\ HasReturned(wallet, u)
        /\ wallet.threads[u].err = ErrWrite
        /\ wallet.files[wallet.threads[u].backupFilepath] = "partial"
        /\ wallet.mu = NoThread
        /\ wallet.tg.n = 0
        /\ wallet.tg.closed

(***************************************************************************)
(* The chain constants.                                                    *)
(***************************************************************************)
ValidateDone == call.fn = "Validate" /\ call.done
StartDifficultyDone == call.fn = "StartDifficulty" /\ call.done
DefaultChainConstantsDone == call.fn = "DefaultChainConstants" /\ call.done

\* C22: Validate returns an error exactly when GenesisCoinDistribution is
\* empty, or GenesisBlockStakeAllocation is empty, or GenesisTimestamp is
\* below 1231006505; of several failures the first in this order is
\* reported; the constants are the same after the call.
C22_ValidateFirstFailure ==
    ValidateDone =>
        LET c == call.given
            noCoins == c.GenesisCoinDistribution = <<>>
            noStakes == c.GenesisBlockStakeAllocation = <<>>
            early == c.GenesisTimestamp < 1231006505
        IN  /\ (call.out.err # Nil) <=> (noCoins \/ noStakes \/ early)
            /\ noCoins => call.out.err = "Invalid genesis coin distribution"
            /\ (~noCoins /\ noStakes)
                   => call.out.err = "Invalid genesis blockstake allocation"
            /\ (~noCoins /\ ~noStakes /\ early)
                   => call.out.err = "Invalid genesis timestamp"
            /\ call.c = call.given
\* Both allocations are empty and the timestamp is too early: the error is
\* that of the coin distribution.
C22_Witness ==
    /\ ValidateDone
    /\ call.given.GenesisCoinDistribution = <<>>
    /\ call.given.GenesisBlockStakeAllocation = <<>>
    /\ call.given.GenesisTimestamp = 1231006504
    /\ call.out.err = "Invalid genesis coin distribution"

WalkOf(bm, id) ==
    WindowWalk(bm, 0, Node(bm, id).Block.ParentID, BlockID(Node(bm, id).Block))

\* C24: for a node at height h >= 1 the loop of targetAdjustmentBase ends
\* after exactly min(TargetWindow, h) steps with `current` at the ancestor
\* of height h - min(TargetWindow, h); windowSize is at least 1 and the
\* denominator BlockFrequency x windowSize handed to big.NewRat is not zero.
C24_WindowWalkBound ==
    \A id \in ChildIDs :
        LET n == Node(blockMap, id)
            h == n.Height
            k == Min(TargetWindow, h)
            walk == WalkOf(blockMap, id)
        IN  /\ h >= 1
            /\ walk[1] = k
            /\ walk[2] = Ancestor(blockMap, id, k)
            /\ Node(blockMap, walk[2]).Height = h - k
            /\ walk[1] >= 1
            /\ ToSigned(BlockFrequency * walk[1]) # 0
            /\ targetAdjustmentBase(blockMap, n)[2] > 0
\* A chain longer than the window: the walk of its tip stops above the
\* genesis block, the walk of a lower node at the genesis block.
C24_Witness ==
    \E id \in ChildIDs, low \in ChildIDs :
        /\ Node(blockMap, id).Height = TargetWindow + 1
        /\ WalkOf(blockMap, id)[1] = TargetWindow
        /\ Node(blockMap, WalkOf(blockMap, id)[2]).Height = 1
        /\ Node(blockMap, low).Height = TargetWindow - 1
        /\ WalkOf(blockMap, low) = <<TargetWindow - 1, GenesisBlockID>>

\* The timestamp of the block at which the window of the node stored under
\* id starts.
WindowStart(bm, id) ==
    Node(bm, Ancestor(bm, id, Min(TargetWindow, Node(bm, id).Height)))
        .Block.Timestamp

\* C25: when the timestamp of a node's block is smaller than that of the
\* block at the start of its window, the unsigned subtraction wraps and its
\* reinterpretation as a signed integer is negative, targetAdjustmentBase
\* returns a negative ratio, and on a retarget boundary the node's
\* ChildTarget is its parent's times MaxAdjustmentDown (truncated), which
\* is neither zero nor negative.
C25_UnderflowClampsDown ==
    \A id \in ChildIDs :
        LET n == Node(blockMap, id)
            p == ParentOf(blockMap, id)
            start == WindowStart(blockMap, id)
            timePassed == SubTimestamp(n.Block.Timestamp, start)
            base == targetAdjustmentBase(blockMap, n)
        IN  n.Block.Timestamp < start =>
                /\ timePassed = TimestampModulus - (start - n.Block.Timestamp)
                /\ ToSigned(timePassed) = n.Block.Timestamp - start
                /\ base[1] < 0
                /\ base[2] > 0
                /\ n.Height % HalfWindow = 0 =>
                       /\ n.ChildTarget = (p.ChildTarget * 10) \div 25
                       /\ n.ChildTarget > 0
\* A node on a retarget boundary, a full window behind it, whose block is
\* older than the block at the start of its window and not older than its
\* parent's.
C25_Witness ==
    \E id \in ChildIDs :
        LET n == Node(blockMap, id)
        IN  /\ n.Height = TargetWindow
            /\ n.Block.Timestamp < WindowStart(blockMap, id)
            /\ n.Block.Timestamp >= ParentOf(blockMap, id).Block.Timestamp
            /\ n.ChildTarget < ParentOf(blockMap, id).ChildTarget
            /\ n.ChildTarget > 0

(***************************************************************************)
(* The node newChild stores.                                               *)
(***************************************************************************)
NewChildDone == call.fn = "newChild"

\* C26: the record newChild stores under the ID of the child's block is the
\* node it returns, with Block = b, DiffsGenerated false, the three lists
\* of diffs empty and a zero ConsensusChecksum; newChild writes that one
\* key and leaves the record of the parent and of every other stored node
\* as it was.
C26_NewChildStoresFreshNode ==
    /\ [](NewChildDone =>
              /\ BlockID(call.b) \in DOMAIN blockMap
              /\ Unmarshal(BucketGet(blockMap, BlockID(call.b))) = call.out
              /\ call.out.Block = call.b
              /\ call.out.DiffsGenerated = FALSE
              /\ call.out.CoinOutputDiffs = <<>>
              /\ call.out.BlockStakeOutputDiffs = <<>>
              /\ call.out.DelayedCoinOutputDiffs = <<>>
              /\ call.out.ConsensusChecksum = 0)
    /\ [][/\ \A id \in DOMAIN blockMap :
                 /\ id \in DOMAIN blockMap'
                 /\ blockMap'[id] = blockMap[id]
          /\ DOMAIN blockMap' \ DOMAIN blockMap = {BlockID(call'.b)}]_vars
\* A second child of a parent that is not the genesis block: the node
\* returned is stored under its ID, beside the parent and its sibling.
C26_Witness ==
    /\ NewChildDone
    /\ call.pb # GenesisBlockID
    /\ \E sibling \in ChildIDs :
           /\ sibling # BlockID(call.b)
           /\ Node(blockMap, sibling).Block.ParentID = call.pb
    /\ Node(blockMap, BlockID(call.b)) = call.out
    /\ call.out.Height = Node(blockMap, call.pb).Height + 1
    /\ call.out.ChildTarget > 0
    /\ ~call.out.DiffsGenerated

(***************************************************************************)
(* Competing tips.                                                         *)
(***************************************************************************)
CompetingTipsDone == call.fn = "competingTips" /\ call.done

\* C27: heavierThan is irreflexive and asymmetric: a.heavierThan(a) is
\* false for every node a, and a.heavierThan(b) and b.heavierThan(a) never
\* hold together, so of two competing tips at most one can make the
\* consensus set reorganize to it.
C27_HeavierThanAsymmetric ==
    CompetingTipsDone =>
        /\ ~(call.out /\ call.back)
        /\ call.a = call.b => ~call.out /\ ~call.back
        /\ call.a.Depth = call.b.Depth => ~call.out /\ ~call.back
\* Two tips of different child targets, the first heavier than the second
\* and the second not heavier than the first.
C27_Witness ==
    /\ CompetingTipsDone
    /\ call.out
    /\ ~call.back
    /\ call.a.ChildTarget # call.b.ChildTarget
    /\ TargetCmp(call.a.Depth, call.b.Depth) < 0

(***************************************************************************)
(* The index of an input.                                                  *)
(***************************************************************************)
\* The condition that carries the signature of an unlocker.
RECURSIVE SignedCondition(_)
SignedCondition(u) ==
    IF u.Type = "TimeLock" THEN SignedCondition(u.Condition) ELSE u
\* Unlock verifies a signature for this input: its key is an ed25519 key.
Verified(in) ==
    SignedCondition(in.Unlocker).PublicKey.Algorithm = SignatureEd25519
\* The indices at which the transaction has a coin input and a block-stake
\* input, both unlocked.
SharedIndices(t) ==
    {k \in 0..(Len(t.CoinInputs) - 1) :
        /\ k < Len(t.BlockStakeInputs)
        /\ <<"coin", k>> \in Unlocked
        /\ <<"blockstake", k>> \in Unlocked}

\* C29: validSignatures calls Unlock for the k-th coin input with index k
\* and for the k-th block-stake input with index k too; InputSigHash of index
\* 0 and of index 1 differ, and nothing in the hash tells the list: in a
\* transaction that validSignatures accepts, the signatures verified for coin
\* input k and for block-stake input k are signatures of one hash,
\* InputSigHash(k).
C29_IndicesRestartPerNamespace ==
    ValidSignaturesDone =>
        LET t == call.t
            all == InputsInOrder(t)
        IN  /\ \A j \in DOMAIN call.out.unlocked :
                   call.out.unlocked[j] = <<all[j].kind, all[j].index>>
            /\ InputSigHash(t, 0) # InputSigHash(t, 1)
            /\ call.out.err = Nil =>
                   \A k \in SharedIndices(t) :
                       LET ci == t.CoinInputs[k + 1]
                           bsi == t.BlockStakeInputs[k + 1]
                       IN  Verified(ci) /\ Verified(bsi) =>
                               /\ SignedCondition(ci.Unlocker).Signature.Message
                                      = InputSigHash(t, k)
                               /\ SignedCondition(bsi.Unlocker).Signature.Message
                                      = InputSigHash(t, k)
\* An accepted transaction of a coin input and a block-stake input, both
\* with ed25519 keys and no time lock: the block-stake input is unlocked
\* with index 0 after coin input 0, and the two signatures are signatures of
\* the same hash.
C29_Witness ==
    /\ ValidSignaturesDone
    /\ call.out.err = Nil
    /\ Len(call.t.CoinInputs) = 1
    /\ Len(call.t.BlockStakeInputs) = 1
    /\ call.out.unlocked = <<<<"coin", 0>>, <<"blockstake", 0>>>>
    /\ call.t.CoinInputs[1].Unlocker.Type = "SingleSignature"
    /\ call.t.BlockStakeInputs[1].Unlocker.Type = "SingleSignature"
    /\ Verified(call.t.CoinInputs[1])
    /\ Verified(call.t.BlockStakeInputs[1])
    /\ call.t.CoinInputs[1].ParentID # call.t.BlockStakeInputs[1].ParentID
    /\ call.t.BlockStakeInputs[1].Unlocker.Signature.Message
           = call.t.CoinInputs[1].Unlocker.Signature.Message

====
